---- MODULE Spec2Model ----
(***************************************************************************)
(* Order submission workflow of the cart page (src/app/cart/page.tsx):     *)
(* field validation, order totals, supplier grouping and the               *)
(* handleSubmitOrder orchestrator with its in-flight requests.             *)
(*                                                                         *)
(* Strings are sequences of one-character strings.  An optional value      *)
(* (a field that may be null/undefined) is a sequence of length 0 or 1.    *)
(***************************************************************************)
EXTENDS Integers, Sequences, FiniteSets, TLC

(***************************************************************************)
(* Bounds of the model.                                                    *)
(***************************************************************************)
MaxAttempts == 2      \* submissions that pass validation, per behaviour
MaxItems == 2         \* length of the item lists given to the pure functions
MaxPad == 1           \* leading / trailing whitespace of a sampled text
MaxOver == 1          \* sampled text lengths reach the minimum length + MaxOver
MaxAdds == 3          \* addToCart calls that pass their guards, per behaviour
MaxEdits == 1         \* quantity changes and removals clicked, per behaviour
MaxChanges == 2       \* the same, for the cart page taken without its order form

(***************************************************************************)
(* Program constants.                                                      *)
(***************************************************************************)
FreeDeliveryThreshold == 100000
FlatDeliveryFee == 5000
MinContactLen == 2
MinPhoneLen == 10
MinAddressLen == 10
OrderFreeDeliveryThreshold == 100000
OrderFlatDeliveryFee == 5000
EmergencyLead == 24 * 60 * 60 * 1000
UrgentLead == 3 * 24 * 60 * 60 * 1000
StandardLead == 7 * 24 * 60 * 60 * 1000

(***************************************************************************)
(* Text helpers: String.prototype.trim and the character classes of the    *)
(* phone pattern.                                                          *)
(***************************************************************************)
WhiteSpace == {" ", "\t", "\n"}
Digits == {"0", "1", "2", "3", "4", "5", "6", "7", "8", "9"}

RECURSIVE TrimStart(_)
TrimStart(s) ==
  IF s # <<>> /\ Head(s) \in WhiteSpace THEN TrimStart(Tail(s)) ELSE s

RECURSIVE TrimEnd(_)
TrimEnd(s) ==
  IF s # <<>> /\ s[Len(s)] \in WhiteSpace
    THEN TrimEnd(SubSeq(s, 1, Len(s) - 1))
    ELSE s

trim(s) == TrimEnd(TrimStart(s))

\* The class [\d\s-()] of phoneRegex.
PhoneClass == Digits \cup WhiteSpace \cup {"-", "(", ")"}

\* Mutant of ClassRunToEnd: the quantifier taken as "more than 10".
ClassRunToEndStrict(s, i) ==
  /\ Len(s) - i + 1 > MinPhoneLen
  /\ \A j \in i..Len(s) : s[j] \in PhoneClass

\* [\d\s-()]{10,}$ tried at position i: the rest of s, at least 10 long, all
\* in the class.
ClassRunToEnd(s, i) ==
  /\ Len(s) - i + 1 >= MinPhoneLen
  /\ \A j \in i..Len(s) : s[j] \in PhoneClass

\* /^\+?[\d\s-()]{10,}$/.test(s): the optional "+" is either taken or skipped.
phoneRegexTest(s) ==
  \/ Len(s) >= 1 /\ s[1] = "+" /\ ClassRunToEnd(s, 2)
  \/ ClassRunToEnd(s, 1)

validatePhone(phone) == phoneRegexTest(trim(phone))

(***************************************************************************)
(* validateOrderDetails: the messages, in the order they are pushed.       *)
(***************************************************************************)
\* Mutant of validateOrderDetails: the phone is checked before the contact
\* person.
validateOrderDetailsPhoneFirst(details) ==
  LET contactErr ==
        IF trim(details.contactPerson) = <<>>
          THEN <<"Contact person is required">>
          ELSE IF Len(trim(details.contactPerson)) < MinContactLen
            THEN <<"Contact person must be at least 2 characters">>
            ELSE <<>>
      phoneErr ==
        IF trim(details.phone) = <<>>
          THEN <<"Phone number is required">>
          ELSE IF ~validatePhone(details.phone)
            THEN <<"Please enter a valid phone number">>
            ELSE <<>>
      addressErr ==
        IF trim(details.deliveryAddress) = <<>>
          THEN <<"Delivery address is required">>
          ELSE IF Len(trim(details.deliveryAddress)) < MinAddressLen
            THEN <<"Please provide a complete delivery address">>
            ELSE <<>>
  IN phoneErr \o contactErr \o addressErr

validateOrderDetails(details) ==
  LET contactErr ==
        IF trim(details.contactPerson) = <<>>
          THEN <<"Contact person is required">>
          ELSE IF Len(trim(details.contactPerson)) < MinContactLen
            THEN <<"Contact person must be at least 2 characters">>
            ELSE <<>>
      phoneErr ==
        IF trim(details.phone) = <<>>
          THEN <<"Phone number is required">>
          ELSE IF ~validatePhone(details.phone)
            THEN <<"Please enter a valid phone number">>
            ELSE <<>>
      addressErr ==
        IF trim(details.deliveryAddress) = <<>>
          THEN <<"Delivery address is required">>
          ELSE IF Len(trim(details.deliveryAddress)) < MinAddressLen
            THEN <<"Please provide a complete delivery address">>
            ELSE <<>>
  IN contactErr \o phoneErr \o addressErr

(***************************************************************************)
(* Cart items as the joined read returns them.  Product is optional, and   *)
(* so are its price and supplierId.                                        *)
(***************************************************************************)
\* item.Product?.price || 0
PriceOrZero(item) ==
  IF item.Product = <<>> THEN 0
  ELSE IF item.Product[1].price = <<>> THEN 0
  ELSE item.Product[1].price[1]

\* item.Product?.supplierId || fallback
SupplierOr(item, fallback) ==
  IF item.Product = <<>> THEN fallback
  ELSE IF item.Product[1].supplierId = <<>> THEN fallback
  ELSE item.Product[1].supplierId[1]

\* item.Product?.name || 'Unknown Product'
NameOrUnknown(item) ==
  IF item.Product = <<>> THEN "Unknown Product"
  ELSE IF item.Product[1].name = "" THEN "Unknown Product"
  ELSE item.Product[1].name

\* Mutant of ReduceSubtotal: the quantity is left out.
RECURSIVE ReduceSubtotalNoQuantity(_, _)
ReduceSubtotalNoQuantity(items, sum) ==
  IF items = <<>> THEN sum
  ELSE ReduceSubtotalNoQuantity(Tail(items), sum + PriceOrZero(Head(items)))

\* items.reduce((sum, item) => sum + (item.Product?.price || 0) * item.quantity, 0)
RECURSIVE ReduceSubtotal(_, _)
ReduceSubtotal(items, sum) ==
  IF items = <<>> THEN sum
  ELSE ReduceSubtotal(Tail(items), sum + PriceOrZero(Head(items)) * Head(items).quantity)

\* Mutant of DeliveryFeeFor: the threshold itself is free of charge.
DeliveryFeeForInclusive(subtotal) ==
  IF subtotal >= FreeDeliveryThreshold THEN 0 ELSE FlatDeliveryFee

DeliveryFeeFor(subtotal) ==
  IF subtotal > FreeDeliveryThreshold THEN 0 ELSE FlatDeliveryFee

calculateOrderTotals(items) ==
  LET subtotal == ReduceSubtotal(items, 0)
      deliveryFee == DeliveryFeeFor(subtotal)
  IN [subtotal |-> subtotal, deliveryFee |-> deliveryFee, total |-> subtotal + deliveryFee]

(***************************************************************************)
(* Supplier grouping of handleSubmitOrder: the reduce over cartItems.  The *)
(* accumulator object is a sequence of buckets in key insertion order.     *)
(***************************************************************************)
\* Mutant of GroupReduce: every item opens a bucket of its own.
RECURSIVE GroupReduceNoMerge(_, _)
GroupReduceNoMerge(items, acc) ==
  IF items = <<>> THEN acc
  ELSE GroupReduceNoMerge(Tail(items),
         Append(acc, [supplierId |-> SupplierOr(Head(items), "unknown"),
                      supplierName |-> SupplierOr(Head(items), "Unknown Supplier"),
                      items |-> <<Head(items)>>]))

\* Mutant of GroupReduce: an item is pushed only when it opens its bucket.
RECURSIVE GroupReduceDropRepeat(_, _)
GroupReduceDropRepeat(items, acc) ==
  IF items = <<>> THEN acc
  ELSE
    LET item == Head(items)
        supplierId == SupplierOr(item, "unknown")
    IN GroupReduceDropRepeat(Tail(items),
         IF \E i \in 1..Len(acc) : acc[i].supplierId = supplierId
           THEN acc
           ELSE Append(acc, [supplierId |-> supplierId,
                             supplierName |-> SupplierOr(item, "Unknown Supplier"),
                             items |-> <<item>>]))

\* Mutant of GroupReduce: every bucket is named "Unknown Supplier".
RECURSIVE GroupReduceUnnamed(_, _)
GroupReduceUnnamed(items, acc) ==
  IF items = <<>> THEN acc
  ELSE
    LET item == Head(items)
        supplierId == SupplierOr(item, "unknown")
        acc1 == IF \E i \in 1..Len(acc) : acc[i].supplierId = supplierId
                  THEN acc
                  ELSE Append(acc, [supplierId |-> supplierId,
                                    supplierName |-> "Unknown Supplier",
                                    items |-> <<>>])
        k == CHOOSE i \in 1..Len(acc1) : acc1[i].supplierId = supplierId
    IN GroupReduceUnnamed(Tail(items), [acc1 EXCEPT ![k].items = Append(@, item)])

RECURSIVE GroupReduce(_, _)
GroupReduce(items, acc) ==
  IF items = <<>> THEN acc
  ELSE
    LET item == Head(items)
        supplierId == SupplierOr(item, "unknown")
        supplierName == SupplierOr(item, "Unknown Supplier")
        acc1 == IF \E i \in 1..Len(acc) : acc[i].supplierId = supplierId
                  THEN acc
                  ELSE Append(acc, [supplierId |-> supplierId,
                                    supplierName |-> supplierName,
                                    items |-> <<>>])
        k == CHOOSE i \in 1..Len(acc1) : acc1[i].supplierId = supplierId
    IN GroupReduce(Tail(items), [acc1 EXCEPT ![k].items = Append(@, item)])

itemsBySupplier(items) == GroupReduce(items, <<>>)

\* items.map(item => ({product_id, product_name, price, quantity, image}))
orderItemsOf(items) ==
  [i \in 1..Len(items) |->
     [product_id |-> items[i].productId,
      product_name |-> NameOrUnknown(items[i]),
      price |-> PriceOrZero(items[i]),
      quantity |-> items[i].quantity]]

\* Mutant of ReduceOrderTotal: the quantity is left out.
RECURSIVE ReduceOrderTotalNoQuantity(_, _)
ReduceOrderTotalNoQuantity(items, sum) ==
  IF items = <<>> THEN sum
  ELSE ReduceOrderTotalNoQuantity(Tail(items), sum + PriceOrZero(Head(items)))

\* items.reduce(...) of the per-supplier map callback.
RECURSIVE ReduceOrderTotal(_, _)
ReduceOrderTotal(items, sum) ==
  IF items = <<>> THEN sum
  ELSE ReduceOrderTotal(Tail(items), sum + PriceOrZero(Head(items)) * Head(items).quantity)

\* Mutant of LeadTime: an urgent order gets the standard lead time.
LeadTimeUrgentAsStandard(urgency) ==
  IF urgency = "emergency" THEN EmergencyLead ELSE StandardLead

\* The lead time added to Date.now() for expectedDelivery.
LeadTime(urgency) ==
  IF urgency = "emergency" THEN EmergencyLead
  ELSE IF urgency = "urgent" THEN UrgentLead
  ELSE StandardLead

\* Mutant of OrderDeliveryFeeFor: the threshold itself is free of charge.
OrderDeliveryFeeForInclusive(orderTotal) ==
  IF orderTotal >= OrderFreeDeliveryThreshold THEN 0 ELSE OrderFlatDeliveryFee

\* Mutant of OrderDeliveryFeeFor: an order is never charged for delivery.
OrderDeliveryFeeForFree(orderTotal) == 0

\* orderTotal > 100000 ? 0 : 5000 of the per-supplier map callback.
OrderDeliveryFeeFor(orderTotal) ==
  IF orderTotal > OrderFreeDeliveryThreshold THEN 0 ELSE OrderFlatDeliveryFee

\* The record one bucket's insert carries (orderNumber's random suffix and
\* the image references are left out).
OrderRecord(bucket, userId, now, details) ==
  LET orderTotal == ReduceOrderTotal(bucket.items, 0)
      orderDeliveryFee == OrderDeliveryFeeFor(orderTotal)
  IN [id |-> <<"order", userId, now, bucket.supplierId>>,
      orderNumber |-> <<"ORD", now>>,
      userId |-> userId,
      supplierId |-> bucket.supplierId,
      supplierName |-> bucket.supplierName,
      items |-> orderItemsOf(bucket.items),
      totalAmount |-> orderTotal + orderDeliveryFee,
      shippingCost |-> orderDeliveryFee,
      status |-> "PENDING",
      urgency |-> details.urgency,
      shippingAddress |-> trim(details.deliveryAddress),
      contactPerson |-> trim(details.contactPerson),
      phone |-> trim(details.phone),
      notes |-> trim(details.notes),
      paymentTerms |-> details.paymentTerms,
      expectedDelivery |-> now + LeadTime(details.urgency),
      createdAt |-> now,
      updatedAt |-> now]

(***************************************************************************)
(* handleSupabaseError and the text of an alert.  A text is a sequence of  *)
(* pieces; join("\n") puts a line break between the messages.              *)
(***************************************************************************)
MappedCodes == {"23505", "42501", "42P01"}

handleSupabaseError(code, context) ==
  IF code = <<"23505">> THEN <<"This item already exists in your cart.">>
  ELSE IF code = <<"42501">> THEN <<"You do not have permission to perform this action.">>
  ELSE IF code = <<"42P01">> THEN <<"Database error. Please try again later.">>
  ELSE <<"Failed to ", context, ". Please try again.">>

\* Mutant of JoinLines: only the first message is shown.
JoinFirstLine(msgs) == IF msgs = <<>> THEN <<>> ELSE <<msgs[1]>>

RECURSIVE JoinLines(_)
JoinLines(msgs) ==
  IF msgs = <<>> THEN <<>>
  ELSE IF Len(msgs) = 1 THEN <<msgs[1]>>
  ELSE <<msgs[1], "\n">> \o JoinLines(Tail(msgs))

(***************************************************************************)
(* The store: the Product table, the CartItem rows and the Order rows.     *)
(***************************************************************************)
Some(v) == <<v>>
None == <<>>

\* Product rows by id.  P4 has neither supplier nor price; P5 has no row, so
\* its join yields no Product.
ProductIds == {"P1", "P2", "P3", "P4", "P5"}

ProductTable(productId) ==
  CASE productId = "P1" -> Some([name |-> "Cement", price |-> Some(60000), supplierId |-> Some("S1")])
    [] productId = "P2" -> Some([name |-> "Gloves", price |-> Some(50000), supplierId |-> Some("S2")])
    [] productId = "P3" -> Some([name |-> "Rebar", price |-> Some(20000), supplierId |-> Some("S1")])
    [] productId = "P4" -> Some([name |-> "", price |-> None, supplierId |-> None])
    [] OTHER -> None

\* A stored row of the buyer.
CartRow(productId, quantity) ==
  [id |-> <<"cart", productId>>, userId |-> "u1", productId |-> productId,
   quantity |-> quantity]

\* A row of another user, never part of the buyer's cart.
OtherUserRow ==
  [id |-> <<"cart", "other">>, userId |-> "u2", productId |-> "P2", quantity |-> 1]

\* The stored carts a behaviour may start from, rows in creation order: P1
\* twice is above the free delivery threshold, P2 twice is exactly on it, P3
\* shares its supplier with P1, P4 has no supplier and no price.
SampleCarts ==
  {<<>>,
   <<CartRow("P1", 2)>>,
   <<CartRow("P2", 2)>>,
   <<CartRow("P4", 3)>>,
   <<CartRow("P1", 2), CartRow("P3", 1)>>,
   <<CartRow("P1", 1), CartRow("P2", 2)>>,
   <<CartRow("P3", 1), CartRow("P4", 3)>>,
   <<CartRow("P1", 2), CartRow("P2", 1), CartRow("P3", 1)>>}

\* The buyer's rows are followed by the other user's row.
InitialCarts == {cart \o <<OtherUserRow>> : cart \in SampleCarts}

RECURSIVE Reverse(_)
Reverse(s) == IF s = <<>> THEN <<>> ELSE Append(Reverse(Tail(s)), Head(s))

\* select(*, Product(...)).eq("userId", uid).order("createdAt", descending)
ReadCart(rows, uid) ==
  LET mine == SelectSeq(rows, LAMBDA r : r.userId = uid)
      joined == [i \in 1..Len(mine) |->
                   [id |-> mine[i].id, userId |-> mine[i].userId,
                    productId |-> mine[i].productId, quantity |-> mine[i].quantity,
                    Product |-> ProductTable(mine[i].productId)]]
  IN Reverse(joined)

\* delete().eq("userId", uid)
DeleteCartOf(rows, uid) == SelectSeq(rows, LAMBDA r : r.userId # uid)

\* update({quantity}).eq("id", id)
SetRowQuantity(rows, id, quantity) ==
  [i \in 1..Len(rows) |->
     IF rows[i].id = id THEN [rows[i] EXCEPT !.quantity = quantity] ELSE rows[i]]

(***************************************************************************)
(* The order draft and the values typed into its text fields.              *)
(***************************************************************************)
EmptyDraft ==
  [urgency |-> "standard", deliveryAddress |-> <<>>, contactPerson |-> <<>>,
   phone |-> <<>>, notes |-> <<>>, paymentTerms |-> "net30"]

TextFields == {"contactPerson", "phone", "deliveryAddress"}

TypedValues(field) ==
  CASE field = "contactPerson" -> {<<" ", "A", "l">>}
    [] field = "phone" ->
         {<<"1", "2", "3">>,
          <<"+", "2", "3", "4", " ", "8", "0", "-", "1", "2", "3">>}
    [] OTHER -> {<<"1", "2", " ", "D", "o", "c", "k", " ", "R", "d", " ">>}

(***************************************************************************)
(* State of the cart page, of the store and of the requests in flight.     *)
(***************************************************************************)
VARIABLES
  user,          \* the auth context's user; id is optional
  dbCart,        \* CartItem rows in the store, in creation order
  dbOrders,      \* Order rows in the store
  cartItems,     \* useState cartItems
  isLoading,     \* useState isLoading
  hasLoadedCart, \* useRef hasLoadedCart
  loadReq,       \* the cart read of loadCart in flight: the user id it reads
  orderDetails,  \* useState orderDetails
  isSubmitting,  \* useState isSubmitting
  orderSuccess,  \* useState orderSuccess
  alerts,        \* the texts the last step passed to alert(), in order
  clock,         \* Date.now()
  attempt,       \* number of submissions that passed validation
  pc,            \* where handleSubmitOrder is: "idle", "awaitCreates", "awaitClear"
  creates,       \* order inserts: [attempt, supplierId, record, status]
  clearReq,      \* the cart delete of handleSubmitOrder: "none" or "inflight"
  lastCall,      \* the function the last step ran
  portal,        \* buyer portal: isAddingToCart, cartItemCount, addToCart calls
  edits,         \* cart page: debounce timer, quantity updates, removals, reloads
  dashboard,     \* buyer dashboard: orders, quotes
  probe          \* input and results of a pure function applied on its own

vars ==
  <<user, dbCart, dbOrders, cartItems, isLoading, hasLoadedCart, loadReq,
    orderDetails, isSubmitting, orderSuccess, alerts, clock, attempt, pc,
    creates, clearReq, lastCall, portal, edits, dashboard,
    probe>>

pageVars ==
  <<user, dbCart, dbOrders, cartItems, isLoading, hasLoadedCart, loadReq,
    orderDetails, isSubmitting, orderSuccess, alerts, clock, attempt, pc,
    creates, clearReq, lastCall>>

Users == {[id |-> None, userType |-> "buyer"], [id |-> Some("u1"), userType |-> "buyer"]}

\* What an error value of the store may carry as its code.
ErrorCodes == {Some("23505"), Some("42501"), Some("42P01"), Some("PGRST301"), None}

NoProbe ==
  [details |-> EmptyDraft, items |-> <<>>, done |-> {}, errors |-> <<>>,
   totals |-> [subtotal |-> 0, deliveryFee |-> 0, total |-> 0], buckets |-> <<>>,
   now |-> 0, records |-> <<>>]

PageInit ==
  /\ user \in Users
  /\ dbCart \in InitialCarts
  /\ dbOrders = {}
  /\ cartItems = <<>>
  /\ isLoading = TRUE
  /\ hasLoadedCart = FALSE
  /\ loadReq = None
  /\ orderDetails = EmptyDraft
  /\ isSubmitting = FALSE
  /\ orderSuccess = FALSE
  /\ alerts = <<>>
  /\ clock = 0
  /\ attempt = 0
  /\ pc = "idle"
  /\ creates = {}
  /\ clearReq = "none"
  /\ lastCall = "none"

\* The buyer portal after construction: nothing is being added.
PortalIdle ==
  [isAddingToCart |-> None, cartItemCount |-> 0, started |-> 0, adds |-> {}]

\* No quantity change or removal is under way.  mountUser is the user of the
\* first render, which the memoized debounced update keeps in its closure.
EditsIdle(mountUser) ==
  [mountUser |-> mountUser, timer |-> None, updates |-> {}, removes |-> {},
   reloads |-> {}, started |-> 0]

\* The Order rows of the buyer that the store holds when the dashboard of
\* DashboardIdle is opened: none.
NoStoredOrders == <<>>

\* The confirmation dialog of the dashboard, closed and reset.
ConfirmationClosed == [isOpen |-> FALSE, type |-> <<>>, id |-> <<>>, isLoading |-> FALSE]

\* The buyer dashboard after construction: no order and no quote is held,
\* orders are shown as loading, there is no error and no dialog; nothing is
\* being fetched or deleted and the real-time channel has no change to
\* deliver.  stored stands for the Order rows of the buyer in the store,
\* newest first.
DashboardIdle ==
  [orders |-> <<>>, quotes |-> <<>>, channel |-> <<>>,
   loadingOrders |-> TRUE, error |-> <<>>, confirmation |-> ConfirmationClosed,
   stored |-> NoStoredOrders, fetches |-> {}, deletes |-> {}, started |-> 0,
   confirmed |-> 0]

Init ==
  /\ PageInit
  /\ portal = PortalIdle
  /\ edits = EditsIdle(user)
  /\ dashboard = DashboardIdle
  /\ probe = NoProbe

\* The page renders the cart and the order form (not the spinner, the empty
\* cart card or the success view).
FormVisible ==
  /\ user.userType = "buyer"
  /\ ~(isLoading /\ ~hasLoadedCart)
  /\ ~orderSuccess
  /\ ~isLoading
  /\ Len(cartItems) > 0

\* onAuthStateChange of the auth provider: the user object is rebuilt from
\* the session's metadata, which may or may not carry an id.
AuthStateChange ==
  /\ UNCHANGED <<probe, portal, edits, dashboard>>
  /\ user' \in Users \ {user}
  /\ alerts' = <<>>
  /\ lastCall' = "onAuthStateChange"
  /\ UNCHANGED <<dbCart, dbOrders, cartItems, isLoading, hasLoadedCart, loadReq,
                 orderDetails, isSubmitting, orderSuccess, clock, attempt, pc,
                 creates, clearReq>>

\* useEffect: the first render with an authenticated user that has an id
\* starts loadCart.
LoadCartEffect ==
  /\ UNCHANGED <<probe, portal, edits, dashboard>>
  /\ user.id # None
  /\ ~hasLoadedCart
  /\ hasLoadedCart' = TRUE
  /\ isLoading' = TRUE
  /\ loadReq' = Some(user.id[1])
  /\ alerts' = <<>>
  /\ lastCall' = "useEffect"
  /\ UNCHANGED <<user, dbCart, dbOrders, cartItems, orderDetails, isSubmitting,
                 orderSuccess, clock, attempt, pc, creates, clearReq>>

\* loadCart after its await: the read returned data, or an error with a code.
LoadCartSettles ==
  /\ UNCHANGED <<probe, portal, edits, dashboard>>
  /\ loadReq # None
  /\ loadReq' = None
  /\ lastCall' = "loadCart"
  /\ isLoading' = FALSE
  /\ \/ /\ cartItems' = ReadCart(dbCart, loadReq[1])
        /\ alerts' = <<>>
     \/ \E code \in ErrorCodes :
          /\ alerts' = <<handleSupabaseError(code, "load cart")>>
          /\ UNCHANGED cartItems
  /\ UNCHANGED <<user, dbCart, dbOrders, hasLoadedCart, orderDetails, isSubmitting,
                 orderSuccess, clock, attempt, pc, creates, clearReq>>

\* handleInputChange(field, value) of a text input of the form.
HandleInputChange ==
  /\ UNCHANGED <<probe, portal, edits, dashboard>>
  /\ FormVisible
  /\ \E field \in TextFields : \E value \in TypedValues(field) :
       orderDetails' = [orderDetails EXCEPT ![field] = value]
  /\ alerts' = <<>>
  /\ lastCall' = "handleInputChange"
  /\ UNCHANGED <<user, dbCart, dbOrders, cartItems, isLoading, hasLoadedCart,
                 loadReq, isSubmitting, orderSuccess, clock, attempt, pc,
                 creates, clearReq>>

\* Mutant of SubmitCatch: the error is logged and not shown.
SubmitCatchSilent(code) ==
  /\ alerts' = <<>>
  /\ isSubmitting' = FALSE
  /\ pc' = "idle"

\* Mutant of SubmitCatch: there is no finally block.
SubmitCatchNoFinally(code) ==
  /\ alerts' = <<handleSupabaseError(code, "submit order")>>
  /\ isSubmitting' = isSubmitting
  /\ pc' = "idle"

\* The catch and finally blocks of handleSubmitOrder, and the end of the call.
\* A thrown Error and a rejection carry no code.
SubmitCatch(code) ==
  /\ alerts' = <<handleSupabaseError(code, "submit order")>>
  /\ isSubmitting' = FALSE
  /\ pc' = "idle"

\* Mutant of hasOrderError: the results are not looked at.
hasOrderErrorNever(results) == FALSE

\* results.some(result => result.error)
hasOrderError(results) == \E q \in results : q.status = "error"

\* Mutant of StillInFlight: the end of the call cancels what is in flight.
StillInFlightNone(reqs) == {}

\* The requests still in flight when the call ends; its results are dropped.
StillInFlight(reqs) == {r \in reqs : r.status = "inflight"}

\* handleSubmitOrder up to its first await: the submit button is clicked.
HandleSubmitOrder ==
  /\ UNCHANGED <<probe, portal, edits, dashboard>>
  /\ FormVisible
  /\ ~isSubmitting
  /\ lastCall' = "handleSubmitOrder"
  /\ IF user.id = None
       THEN /\ alerts' = <<>>
            /\ UNCHANGED <<user, dbCart, dbOrders, cartItems, isLoading,
                           hasLoadedCart, loadReq, orderDetails, isSubmitting,
                           orderSuccess, clock, attempt, pc, creates, clearReq>>
       ELSE LET validationErrors == validateOrderDetails(orderDetails) IN
         IF validationErrors # <<>>
           THEN /\ alerts' = <<JoinLines(validationErrors)>>
                /\ UNCHANGED <<user, dbCart, dbOrders, cartItems, isLoading,
                               hasLoadedCart, loadReq, orderDetails, isSubmitting,
                               orderSuccess, clock, attempt, pc, creates, clearReq>>
           ELSE /\ attempt < MaxAttempts
                /\ isSubmitting' = TRUE
                /\ clock' = clock + 1
                /\ attempt' = attempt + 1
                /\ pc' = "awaitCreates"
                /\ LET buckets == itemsBySupplier(cartItems) IN
                     creates' = creates \cup
                       {[attempt |-> attempt + 1,
                         supplierId |-> buckets[i].supplierId,
                         record |-> OrderRecord(buckets[i], user.id[1], clock + 1, orderDetails),
                         status |-> "inflight"] : i \in 1..Len(buckets)}
                /\ alerts' = <<>>
                /\ UNCHANGED <<user, dbCart, dbOrders, cartItems, isLoading,
                               hasLoadedCart, loadReq, orderDetails, orderSuccess,
                               clearReq>>

\* Mutant of InsertOrder: a user's second order for a supplier is dropped.
InsertOrderOncePerSupplier(rows, record) ==
  IF \E o \in rows : o.userId = record.userId /\ o.supplierId = record.supplierId
    THEN rows
    ELSE rows \cup {record}

\* from("Order").insert(record): the row is added; the ids of two submissions
\* differ by their Date.now().
InsertOrder(rows, record) == rows \cup {record}

\* One order insert settles: the row is stored and {data} returned ("ok"), an
\* {error} is returned ("error"), or the request rejects ("rejected").  When
\* the insert belongs to the Promise.all being awaited, the handler goes on in
\* the same step: a rejection rejects Promise.all at once; the last
\* fulfilment resolves it, and the results are checked for an error.
CreateSettles ==
  \E r \in creates : \E outcome \in {"ok", "error", "rejected"} :
    /\ UNCHANGED <<probe, portal, edits, dashboard>>
    /\ r.status = "inflight"
    /\ lastCall' = "insert"
    /\ dbOrders' = IF outcome = "ok" THEN InsertOrder(dbOrders, r.record)
                                      ELSE dbOrders
    /\ LET settled == (creates \ {r}) \cup {[r EXCEPT !.status = outcome]}
           results == {q \in settled : q.attempt = attempt}
       IN IF pc = "awaitCreates" /\ r.attempt = attempt
            THEN IF outcome = "rejected"
                   THEN /\ SubmitCatch(None)
                        /\ creates' = StillInFlight(settled)
                        /\ UNCHANGED clearReq
                   ELSE IF \E q \in results : q.status = "inflight"
                     THEN /\ creates' = settled
                          /\ alerts' = <<>>
                          /\ UNCHANGED <<isSubmitting, pc, clearReq>>
                     ELSE IF hasOrderError(results)
                       THEN /\ SubmitCatch(None)
                            /\ creates' = StillInFlight(settled)
                            /\ UNCHANGED clearReq
                       ELSE /\ clearReq' = "inflight"
                            /\ pc' = "awaitClear"
                            /\ creates' = settled
                            /\ alerts' = <<>>
                            /\ UNCHANGED isSubmitting
            ELSE /\ creates' = creates \ {r}
                 /\ alerts' = <<>>
                 /\ UNCHANGED <<isSubmitting, pc, clearReq>>
    /\ UNCHANGED <<user, dbCart, cartItems, isLoading, hasLoadedCart, loadReq,
                   orderDetails, orderSuccess, clock, attempt>>

\* The user id the handler of submission n holds: the one in its records.
SubmittedBy(reqs, n) == (CHOOSE q \in reqs : q.attempt = n).record.userId

\* Mutant of ClearFailed: the local list is cleared although the delete failed.
ClearFailedClearsLocal(code) ==
  /\ SubmitCatch(code)
  /\ cartItems' = <<>>
  /\ UNCHANGED <<dbCart, orderSuccess>>

\* The cart delete returned an {error} or rejected: deleteError is thrown and
\* caught.
ClearFailed(code) ==
  /\ SubmitCatch(code)
  /\ UNCHANGED <<dbCart, orderSuccess, cartItems>>

\* The cart delete settles: the rows are deleted, or an {error} is returned,
\* or the request rejects.
ClearSettles ==
  /\ UNCHANGED <<probe, portal, edits, dashboard>>
  /\ clearReq = "inflight"
  /\ clearReq' = "none"
  /\ lastCall' = "delete"
  /\ creates' = StillInFlight(creates)
  /\ \/ /\ dbCart' = DeleteCartOf(dbCart, SubmittedBy(creates, attempt))
        /\ orderSuccess' = TRUE
        /\ cartItems' = <<>>
        /\ isSubmitting' = FALSE
        /\ pc' = "idle"
        /\ alerts' = <<>>
     \/ \E code \in ErrorCodes : ClearFailed(code)
  /\ UNCHANGED <<user, dbOrders, isLoading, hasLoadedCart, loadReq, orderDetails,
                 clock, attempt>>

Next ==
  \/ AuthStateChange
  \/ LoadCartEffect
  \/ LoadCartSettles
  \/ HandleInputChange
  \/ HandleSubmitOrder
  \/ CreateSettles
  \/ ClearSettles

Spec == Init /\ [][Next]_vars

\* The page with a store that answers: every order insert and every cart
\* delete that has been issued settles at some time.
SpecLive == Spec /\ WF_vars(CreateSettles) /\ WF_vars(ClearSettles)

(***************************************************************************)
(* Quantity changes and removals of the cart page: updateQuantity with its *)
(* debounced store update, the reload after a failed update, removeItem.   *)
(* The cart page with these handlers is SpecCart.                          *)
(***************************************************************************)
\* The cart list with its quantity and remove buttons is rendered.
ListVisible == FormVisible

\* items.map(item => item.id === itemId ? {...item, quantity} : item)
MapQuantity(items, itemId, quantity) ==
  [i \in 1..Len(items) |->
     IF items[i].id = itemId THEN [items[i] EXCEPT !.quantity = quantity]
     ELSE items[i]]

\* Mutant of BelowOne: no quantity is refused.
BelowOneNever(newQuantity) == FALSE

\* if (newQuantity < 1) return, of updateQuantity and of the debounced update.
BelowOne(newQuantity) == newQuantity < 1

\* updateQuantity(itemId, newQuantity), called with the quantity of an item
\* plus or minus one (the minus button is disabled at quantity 1; the
\* function has its own guard and returns at once below 1).  The local list
\* changes at once and the debounce timer is set anew, which drops a call
\* that was waiting.
UpdateQuantity ==
  \E i \in 1..Len(cartItems) :
    \E newQuantity \in {cartItems[i].quantity + 1, cartItems[i].quantity - 1} :
      /\ ListVisible
      /\ IF BelowOne(newQuantity)
           THEN UNCHANGED <<cartItems, edits>>
           ELSE /\ cartItems' = MapQuantity(cartItems, cartItems[i].id, newQuantity)
                /\ edits' = [edits EXCEPT
                               !.timer = Some([itemId |-> cartItems[i].id,
                                               quantity |-> newQuantity]),
                               !.started = @ + 1]
      /\ alerts' = <<>>
      /\ lastCall' = "updateQuantity"
      /\ UNCHANGED <<user, dbCart, dbOrders, isLoading, hasLoadedCart, loadReq,
                     orderDetails, isSubmitting, orderSuccess, clock, attempt, pc,
                     creates, clearReq, portal, dashboard, probe>>

\* The debounce timer fires: the store update of the last call is sent,
\* unless its quantity is below 1.
DebounceFires ==
  /\ edits.timer # None
  /\ edits' = [edits EXCEPT
                 !.timer = None,
                 !.updates = IF BelowOne(edits.timer[1].quantity)
                               THEN @ ELSE @ \cup {edits.timer[1]}]
  /\ alerts' = <<>>
  /\ lastCall' = "debouncedUpdateQuantity"
  /\ UNCHANGED <<user, dbCart, dbOrders, cartItems, isLoading, hasLoadedCart,
                 loadReq, orderDetails, isSubmitting, orderSuccess, clock, attempt,
                 pc, creates, clearReq, portal, dashboard, probe>>

\* The store update succeeds: the row is updated and the local list is
\* mapped again with the quantity of that call.
UpdateSucceeds ==
  \E u \in edits.updates :
    /\ lastCall' = "debouncedUpdateQuantity:update"
    /\ dbCart' = SetRowQuantity(dbCart, u.itemId, u.quantity)
    /\ cartItems' = MapQuantity(cartItems, u.itemId, u.quantity)
    /\ edits' = [edits EXCEPT !.updates = @ \ {u}]
    /\ alerts' = <<>>
    /\ UNCHANGED <<user, dbOrders, isLoading, hasLoadedCart, loadReq,
                   orderDetails, isSubmitting, orderSuccess, clock, attempt, pc,
                   creates, clearReq, portal, dashboard, probe>>

\* The store update fails: the text is alerted and loadCart of the first
\* render is called, which returns at once when that render had no user id
\* and otherwise sets isLoading and sends the read.
UpdateFails ==
  \E u \in edits.updates : \E code \in ErrorCodes :
    /\ lastCall' = "debouncedUpdateQuantity:catch"
    /\ alerts' = <<handleSupabaseError(code, "update quantity")>>
    /\ IF edits.mountUser.id = None
         THEN /\ edits' = [edits EXCEPT !.updates = @ \ {u}]
              /\ UNCHANGED isLoading
         ELSE /\ isLoading' = TRUE
              /\ edits' = [edits EXCEPT
                     !.updates = @ \ {u},
                     !.reloads = @ \cup
                       {[of |-> u, userId |-> edits.mountUser.id[1],
                         data |-> None]}]
    /\ UNCHANGED <<user, dbCart, dbOrders, cartItems, hasLoadedCart, loadReq,
                   orderDetails, isSubmitting, orderSuccess, clock, attempt, pc,
                   creates, clearReq, portal, dashboard, probe>>

\* The store answers the read of a reload with the rows it holds then.
ReloadServed ==
  \E r \in edits.reloads :
    /\ r.data = None
    /\ edits' = [edits EXCEPT !.reloads = (@ \ {r}) \cup
                   {[r EXCEPT !.data = Some(ReadCart(dbCart, r.userId))]}]
    /\ alerts' = <<>>
    /\ lastCall' = "store"
    /\ UNCHANGED <<user, dbCart, dbOrders, cartItems, isLoading, hasLoadedCart,
                   loadReq, orderDetails, isSubmitting, orderSuccess, clock,
                   attempt, pc, creates, clearReq, portal, dashboard, probe>>

\* loadCart of a reload after its await: the answer arrives and replaces the
\* local list, or the read failed and its error is alerted.
ReloadSettles ==
  \E r \in edits.reloads :
    /\ lastCall' = "loadCart"
    /\ isLoading' = FALSE
    /\ edits' = [edits EXCEPT !.reloads = @ \ {r}]
    /\ \/ /\ r.data # None
          /\ cartItems' = r.data[1]
          /\ alerts' = <<>>
       \/ \E code \in ErrorCodes :
            /\ alerts' = <<handleSupabaseError(code, "load cart")>>
            /\ UNCHANGED cartItems
    /\ UNCHANGED <<user, dbCart, dbOrders, hasLoadedCart, loadReq, orderDetails,
                   isSubmitting, orderSuccess, clock, attempt, pc, creates,
                   clearReq, portal, dashboard, probe>>

\* removeItem(itemId) up to its await: the remove button is clicked.
RemoveItem ==
  \E i \in 1..Len(cartItems) :
    /\ ListVisible
    /\ edits' = [edits EXCEPT !.removes = @ \cup {cartItems[i].id},
                              !.started = @ + 1]
    /\ alerts' = <<>>
    /\ lastCall' = "removeItem"
    /\ UNCHANGED <<user, dbCart, dbOrders, cartItems, isLoading, hasLoadedCart,
                   loadReq, orderDetails, isSubmitting, orderSuccess, clock,
                   attempt, pc, creates, clearReq, portal, dashboard, probe>>

\* The delete of removeItem settles: the row is deleted and the item leaves
\* the local list, or the error is alerted.
RemoveSettles ==
  \E itemId \in edits.removes :
    /\ lastCall' = "removeItem:delete"
    /\ edits' = [edits EXCEPT !.removes = @ \ {itemId}]
    /\ \/ /\ dbCart' = SelectSeq(dbCart, LAMBDA r : r.id # itemId)
          /\ cartItems' = SelectSeq(cartItems, LAMBDA item : item.id # itemId)
          /\ alerts' = <<>>
       \/ \E code \in ErrorCodes :
            /\ alerts' = <<handleSupabaseError(code, "remove item")>>
            /\ UNCHANGED <<dbCart, cartItems>>
    /\ UNCHANGED <<user, dbOrders, isLoading, hasLoadedCart, loadReq,
                   orderDetails, isSubmitting, orderSuccess, clock, attempt, pc,
                   creates, clearReq, portal, dashboard, probe>>

\* The stored carts a behaviour of SpecCart may start from.
EditCarts ==
  {<<CartRow("P1", 2), OtherUserRow>>,
   <<CartRow("P1", 1), CartRow("P2", 2), OtherUserRow>>}

InitCart ==
  /\ PageInit
  /\ dbCart \in EditCarts
  /\ portal = PortalIdle
  /\ edits = EditsIdle(user)
  /\ dashboard = DashboardIdle
  /\ probe = NoProbe

NextCart ==
  \/ LoadCartEffect
  \/ LoadCartSettles
  \/ HandleInputChange
  \/ HandleSubmitOrder
  \/ CreateSettles
  \/ ClearSettles
  \/ (edits.started < MaxEdits /\ UpdateQuantity)
  \/ DebounceFires
  \/ UpdateSucceeds
  \/ UpdateFails
  \/ ReloadServed
  \/ ReloadSettles
  \/ (edits.started < MaxEdits /\ RemoveItem)
  \/ RemoveSettles

SpecCart == InitCart /\ [][NextCart]_vars

\* The cart page without the order form: sign-in changes, the load of the
\* cart, quantity changes and removals.
NextQuantity ==
  \/ AuthStateChange
  \/ LoadCartEffect
  \/ LoadCartSettles
  \/ (edits.started < MaxChanges /\ UpdateQuantity)
  \/ DebounceFires
  \/ UpdateSucceeds
  \/ UpdateFails
  \/ ReloadServed
  \/ ReloadSettles
  \/ (edits.started < MaxChanges /\ RemoveItem)
  \/ RemoveSettles

SpecQuantity == InitCart /\ [][NextQuantity]_vars

\* Quantity changes with a store that applies every update it is sent.
NextDebounce ==
  \/ LoadCartEffect
  \/ LoadCartSettles
  \/ (edits.started < MaxChanges /\ UpdateQuantity)
  \/ DebounceFires
  \/ UpdateSucceeds

SpecDebounce == InitCart /\ [][NextDebounce]_vars

(***************************************************************************)
(* validateOrderDetails applied on its own to sampled drafts.              *)
(***************************************************************************)
Rep(c, n) == [i \in 1..n |-> c]

\* Bodies of n characters c, plain or with the first or the last character
\* replaced by one of others.
Bodies(c, n, others) ==
  {Rep(c, n)} \cup
  {[Rep(c, n) EXCEPT ![i] = o] : i \in {1, n} \cap 1..n, o \in others}

Padded(bodies) ==
  {Rep(" ", l) \o b \o Rep(" ", r) : l \in 0..MaxPad, r \in 0..MaxPad, b \in bodies}

SampleLens(min) == {0} \cup ((min - 1)..(min + MaxOver))

PhoneSamples ==
  Padded({plus \o b :
            plus \in {<<>>, <<"+">>},
            b \in UNION {Bodies("7", n, {" ", "\t", "-", "(", ")", "x", "+"}) :
                           n \in SampleLens(MinPhoneLen)}})

ContactSamples ==
  Padded(UNION {Bodies("a", n, {" ", "\n"}) : n \in SampleLens(MinContactLen)})

AddressSamples ==
  Padded(UNION {Bodies("a", n, {" ", "\t"}) : n \in SampleLens(MinAddressLen)})

\* One text of each field that passes and one that does not.
FewContacts == {<<"A", "l">>, <<" ", "A", " ">>}
FewPhones == {<<"0", "8", "0", "3", "1", "2", "3", "4", "5", "6">>, <<"1", "2", "3">>}
FewAddresses == {<<"1", "2", " ", "D", "o", "c", "k", " ", "R", "d">>, <<"s", "h", "o", "r", "t">>}

DraftOf(contact, phone, address) ==
  [EmptyDraft EXCEPT !.contactPerson = contact, !.phone = phone,
                     !.deliveryAddress = address]

SampleDrafts ==
  {DraftOf(c, ph, a) : c \in ContactSamples, ph \in FewPhones, a \in FewAddresses}
  \cup {DraftOf(c, ph, a) : c \in FewContacts, ph \in PhoneSamples, a \in FewAddresses}
  \cup {DraftOf(c, ph, a) : c \in FewContacts, ph \in FewPhones, a \in AddressSamples}

InitValidate ==
  /\ PageInit
  /\ user.id # None
  /\ dbCart = <<OtherUserRow>>
  /\ portal = PortalIdle
  /\ edits = EditsIdle(user)
  /\ dashboard = DashboardIdle
  /\ \E d \in SampleDrafts : probe = [NoProbe EXCEPT !.details = d]

ApplyValidate ==
  /\ "validated" \notin probe.done
  /\ probe' = [probe EXCEPT !.done = {"validated"},
                            !.errors = validateOrderDetails(probe.details)]
  /\ UNCHANGED <<pageVars, portal, edits, dashboard>>

NextValidate == ApplyValidate

SpecValidate == InitValidate /\ [][NextValidate]_vars

(***************************************************************************)
(* calculateOrderTotals and the supplier grouping applied on their own to  *)
(* sampled item lists.                                                     *)
(***************************************************************************)
SamplePrices == {None, Some(0), Some(50000), Some(60000)}
SampleSuppliers == {None, Some("S1"), Some("S2")}
SampleQuantities == {1, 2}

SampleProducts ==
  {None} \cup
  {Some([name |-> "Item", price |-> pr, supplierId |-> su]) :
     pr \in SamplePrices, su \in SampleSuppliers}

\* The i-th item of a list: ids are distinct within a list.
SampleItem(i, product, quantity) ==
  [id |-> <<"cart", i>>, userId |-> "u1", productId |-> <<"P", i>>,
   quantity |-> quantity, Product |-> product]

\* The list of n items made of the products ps and the quantities qs.
SampleItemList(n, ps, qs) == [i \in 1..n |-> SampleItem(i, ps[i], qs[i])]

InitItems ==
  /\ PageInit
  /\ user.id # None
  /\ dbCart = <<OtherUserRow>>
  /\ portal = PortalIdle
  /\ edits = EditsIdle(user)
  /\ dashboard = DashboardIdle
  /\ \E n \in 0..MaxItems :
       \E ps \in [1..n -> SampleProducts] : \E qs \in [1..n -> SampleQuantities] :
         probe = [NoProbe EXCEPT !.items = SampleItemList(n, ps, qs)]

ApplyTotals ==
  /\ "totals" \notin probe.done
  /\ probe' = [probe EXCEPT !.done = @ \cup {"totals"},
                            !.totals = calculateOrderTotals(probe.items)]
  /\ UNCHANGED <<pageVars, portal, edits, dashboard>>

ApplyGrouping ==
  /\ "grouped" \notin probe.done
  /\ probe' = [probe EXCEPT !.done = @ \cup {"grouped"},
                            !.buckets = itemsBySupplier(probe.items)]
  /\ UNCHANGED <<pageVars, portal, edits, dashboard>>

NextItems == ApplyTotals \/ ApplyGrouping

SpecItems == InitItems /\ [][NextItems]_vars

(***************************************************************************)
(* The per-supplier map callback of handleSubmitOrder applied on its own   *)
(* to sampled carts and to sampled drafts that pass validation.            *)
(***************************************************************************)
Urgencies == {"standard", "urgent", "emergency"}
PaymentTermsOptions == {"net30", "net15", "pod", "advance"}
SampleNotes == {<<>>, <<" ", "h", "i", " ">>}
SampleNows == {1, 2}

\* Drafts that pass validation, with padded texts.
ValidDrafts ==
  {[urgency |-> u,
    deliveryAddress |-> <<"1", "2", " ", "D", "o", "c", "k", " ", "R", "d", " ">>,
    contactPerson |-> <<" ", "A", "l">>,
    phone |-> <<" ", "0", "8", "0", "3", "1", "2", "3", "4", "5", "6">>,
    notes |-> n,
    paymentTerms |-> t] :
     u \in Urgencies, n \in SampleNotes, t \in PaymentTermsOptions}

\* Object.entries(itemsBySupplier).map(...): the records of one submission,
\* in bucket order.
OrderRecordsOf(items, userId, now, details) ==
  LET buckets == itemsBySupplier(items)
  IN [i \in 1..Len(buckets) |-> OrderRecord(buckets[i], userId, now, details)]

InitOrders ==
  /\ PageInit
  /\ user.id # None
  /\ dbCart = <<OtherUserRow>>
  /\ portal = PortalIdle
  /\ edits = EditsIdle(user)
  /\ dashboard = DashboardIdle
  /\ \E cart \in SampleCarts : \E d \in ValidDrafts : \E now \in SampleNows :
       probe = [NoProbe EXCEPT !.items = ReadCart(cart, "u1"), !.details = d,
                               !.now = now]

ApplyOrderRecords ==
  /\ "orders" \notin probe.done
  /\ probe' = [probe EXCEPT
                 !.done = @ \cup {"orders"},
                 !.records = OrderRecordsOf(probe.items, "u1", probe.now, probe.details)]
  /\ UNCHANGED <<pageVars, portal, edits, dashboard>>

NextOrders == ApplyOrderRecords

SpecOrders == InitOrders /\ [][NextOrders]_vars

(***************************************************************************)
(* addToCart of the buyer portal (src/app/buyer-portal/page.tsx): the      *)
(* existence check, then the update or the insert, then loadCartCount.     *)
(* portal.adds holds the calls that are waiting for a request.             *)
(***************************************************************************)
\* The products the portal lists with an enabled "Add to Cart" button.
PortalProducts == {"P1", "P2"}

\* The stored carts a portal behaviour may start from.
PortalCarts == {<<OtherUserRow>>, <<CartRow("P1", 1), OtherUserRow>>}

\* The error codes a request of addToCart may fail with; a 23505 error
\* carries the message "duplicate key value violates unique constraint".
AddErrorCodes == {Some("42501"), Some("23505"), Some("23503"), None}

\* The text the catch block of addToCart alerts.
addToCartErrorText(code) ==
  IF code = Some("42501")
    THEN <<"Permission denied. Please check your account settings or contact support.">>
  ELSE IF code = Some("23505") THEN <<"This item is already in your cart.">>
  ELSE IF code = Some("23503")
    THEN <<"Product or user not found. Please refresh the page and try again.">>
  ELSE <<"Failed to add to cart: ", "Unknown error">>

\* select("*").eq("userId", uid).eq("productId", pid)
RowsOf(rows, uid, pid) ==
  SelectSeq(rows, LAMBDA r : r.userId = uid /\ r.productId = pid)

\* data.reduce((sum, item) => sum + (item.quantity || 0), 0) of loadCartCount
RECURSIVE ReduceCount(_, _)
ReduceCount(rows, sum) ==
  IF rows = <<>> THEN sum ELSE ReduceCount(Tail(rows), sum + Head(rows).quantity)

\* The catch and finally blocks of addToCart, and the end of the call.
AddCatch(a, code) ==
  /\ alerts' = <<addToCartErrorText(code)>>
  /\ portal' = [portal EXCEPT !.isAddingToCart = None, !.adds = @ \ {a}]
  /\ UNCHANGED dbCart

\* addToCart(productId, quantity) up to its first await: the button of a
\* product is clicked; it is disabled while isAddingToCart is that product.
AddToCart ==
  \E productId \in PortalProducts : \E quantity \in {1} :
    /\ portal.isAddingToCart # Some(productId)
    /\ lastCall' = "addToCart"
    /\ IF user.id = None
         THEN /\ alerts' = <<<<"Please log in to add items to cart">>>>
              /\ UNCHANGED portal
         ELSE /\ portal.started < MaxAdds
              /\ alerts' = <<>>
              /\ portal' =
                   [portal EXCEPT
                      !.isAddingToCart = Some(productId),
                      !.started = @ + 1,
                      !.adds = @ \cup
                        {[n |-> portal.started + 1, productId |-> productId,
                          quantity |-> quantity, userId |-> user.id[1],
                          pc |-> "check", existing |-> None, id |-> None]}]
    /\ UNCHANGED <<user, dbCart, dbOrders, cartItems, isLoading, hasLoadedCart,
                   loadReq, orderDetails, isSubmitting, orderSuccess, clock,
                   attempt, pc, creates, clearReq, edits, dashboard, probe>>

\* The existence check settles.  maybeSingle() returns the row, or null when
\* there is none, or an error when there are several; the read may also fail.
\* With a row the update is sent, without one the insert, whose id carries
\* Date.now().
AddCheckSettles ==
  \E a \in portal.adds :
    /\ a.pc = "check"
    /\ lastCall' = "addToCart:check"
    /\ LET found == RowsOf(dbCart, a.userId, a.productId) IN
         \/ /\ Len(found) = 1
            /\ portal' = [portal EXCEPT !.adds = (@ \ {a}) \cup
                            {[a EXCEPT !.pc = "update", !.existing = Some(found[1])]}]
            /\ alerts' = <<>>
            /\ UNCHANGED <<dbCart, clock>>
         \/ /\ Len(found) = 0
            /\ \E tick \in {0, 1} :
                 /\ clock' = clock + tick
                 /\ portal' = [portal EXCEPT !.adds = (@ \ {a}) \cup
                      {[a EXCEPT !.pc = "insert",
                                 !.id = Some(<<"cart", a.userId, a.productId, clock + tick>>)]}]
            /\ alerts' = <<>>
            /\ UNCHANGED dbCart
         \/ /\ Len(found) > 1
            /\ AddCatch(a, None)
            /\ UNCHANGED clock
         \/ /\ \E code \in AddErrorCodes : AddCatch(a, code)
            /\ UNCHANGED clock
    /\ UNCHANGED <<user, dbOrders, cartItems, isLoading, hasLoadedCart, loadReq,
                   orderDetails, isSubmitting, orderSuccess, attempt, pc, creates,
                   clearReq, edits, dashboard, probe>>

\* The update or the insert settles: the store applies it, or returns an
\* error.  An insert whose id is already stored violates the primary key.
\* After the write the call waits for loadCartCount.
AddWriteSettles ==
  \E a \in portal.adds :
    /\ a.pc \in {"update", "insert"}
    /\ lastCall' = "addToCart:write"
    /\ \/ /\ a.pc = "update"
          /\ dbCart' = SetRowQuantity(dbCart, a.existing[1].id,
                                       a.existing[1].quantity + a.quantity)
          /\ portal' = [portal EXCEPT !.adds = (@ \ {a}) \cup {[a EXCEPT !.pc = "count"]}]
          /\ alerts' = <<>>
       \/ /\ a.pc = "insert"
          /\ IF \E i \in 1..Len(dbCart) : dbCart[i].id = a.id[1]
               THEN AddCatch(a, Some("23505"))
               ELSE /\ dbCart' = Append(dbCart,
                         [id |-> a.id[1], userId |-> a.userId,
                          productId |-> a.productId, quantity |-> a.quantity])
                    /\ portal' = [portal EXCEPT !.adds = (@ \ {a}) \cup
                                    {[a EXCEPT !.pc = "count"]}]
                    /\ alerts' = <<>>
       \/ \E code \in AddErrorCodes : AddCatch(a, code)
    /\ UNCHANGED <<user, dbOrders, cartItems, isLoading, hasLoadedCart, loadReq,
                   orderDetails, isSubmitting, orderSuccess, clock, attempt, pc,
                   creates, clearReq, edits, dashboard, probe>>

\* loadCartCount settles (a failed read sets the count to 0), the success is
\* alerted and the finally block runs.
AddCountSettles ==
  \E a \in portal.adds :
    /\ a.pc = "count"
    /\ lastCall' = "addToCart:count"
    /\ \E count \in {ReduceCount(SelectSeq(dbCart, LAMBDA r : r.userId = a.userId), 0), 0} :
         portal' = [portal EXCEPT !.cartItemCount = count,
                                  !.isAddingToCart = None,
                                  !.adds = @ \ {a}]
    /\ alerts' = <<<<"Added to cart successfully!">>>>
    /\ UNCHANGED <<user, dbCart, dbOrders, cartItems, isLoading, hasLoadedCart,
                   loadReq, orderDetails, isSubmitting, orderSuccess, clock,
                   attempt, pc, creates, clearReq, edits, dashboard, probe>>

InitPortal ==
  /\ PageInit
  /\ dbCart \in PortalCarts
  /\ portal = PortalIdle
  /\ edits = EditsIdle(user)
  /\ dashboard = DashboardIdle
  /\ probe = NoProbe

NextPortal ==
  \/ AddToCart
  \/ AddCheckSettles
  \/ AddWriteSettles
  \/ AddCountSettles

SpecPortal == InitPortal /\ [][NextPortal]_vars

\* The operations that write cart quantities, taken together: addToCart of
\* the portal with the load, the quantity changes and the removals of the
\* cart page.  MaxChanges bounds the calls of the three taken together.
CallsStarted == portal.started + edits.started

NextQuantities ==
  \/ LoadCartEffect
  \/ LoadCartSettles
  \/ (CallsStarted < MaxChanges /\ UpdateQuantity)
  \/ DebounceFires
  \/ UpdateSucceeds
  \/ UpdateFails
  \/ ReloadServed
  \/ ReloadSettles
  \/ (CallsStarted < MaxChanges /\ RemoveItem)
  \/ RemoveSettles
  \/ (CallsStarted < MaxChanges /\ AddToCart)
  \/ AddCheckSettles
  \/ AddWriteSettles
  \/ AddCountSettles

SpecQuantities == InitCart /\ [][NextQuantities]_vars

(***************************************************************************)
(* The buyer dashboard (src/app/buyer-dashboard/page.tsx): the orders and  *)
(* quotes it holds, the real-time events that change them, and the         *)
(* statistics it shows.  An order is modelled by its id, its status, and   *)
(* its totalAmount and supplierName (optionals: a column may hold no       *)
(* value), a quote by its id and status.                                   *)
(***************************************************************************)
MaxOrders == 2        \* orders the dashboard holds
MaxQuotes == 1        \* quotes the dashboard holds

\* Statuses of the Order type, in both spellings, and one that is neither
\* pending nor delivered.
SampleStatuses == {"PENDING", "pending", "DELIVERED", "delivered", "CANCELLED"}

SampleOrders ==
  [id : {"o1"}, status : SampleStatuses, totalAmount : {None, Some(50000)},
   supplierName : {None}]
    \cup [id : {"o2"}, status : {"DELIVERED", "pending"},
          totalAmount : {Some(75000)}, supplierName : {Some("S2")}]

SampleQuotes == [id : {"q1"}, status : {"pending", "quoted"}]

\* o.status === "PENDING" || o.status === "pending"
IsPendingOrder(o) == o.status = "PENDING" \/ o.status = "pending"

\* o.status === "DELIVERED" || o.status === "delivered"
IsDeliveredOrder(o) == o.status = "DELIVERED" \/ o.status = "delivered"

\* o.totalAmount || 0
TotalAmountOrZero(o) == IF o.totalAmount = None THEN 0 ELSE o.totalAmount[1]

\* .reduce((sum, o) => sum + (o.totalAmount || 0), 0)
RECURSIVE ReduceSpent(_, _)
ReduceSpent(list, sum) ==
  IF list = <<>> THEN sum
  ELSE ReduceSpent(Tail(list), sum + TotalAmountOrZero(Head(list)))

\* Mutant of dashboardStats: totalSpent adds up the orders of every status.
dashboardStatsSpentOnAll(orders, quotes) ==
  [totalOrders |-> Len(orders),
   pendingOrders |-> Len(SelectSeq(orders, IsPendingOrder)),
   deliveredOrders |-> Len(SelectSeq(orders, IsDeliveredOrder)),
   totalSpent |-> ReduceSpent(orders, 0),
   pendingQuotes |-> Len(SelectSeq(quotes, LAMBDA q : q.status = "pending"))]

\* The memoized statistics of the dashboard.
dashboardStats(orders, quotes) ==
  [totalOrders |-> Len(orders),
   pendingOrders |-> Len(SelectSeq(orders, IsPendingOrder)),
   deliveredOrders |-> Len(SelectSeq(orders, IsDeliveredOrder)),
   totalSpent |-> ReduceSpent(SelectSeq(orders, IsDeliveredOrder), 0),
   pendingQuotes |-> Len(SelectSeq(quotes, LAMBDA q : q.status = "pending"))]

\* prev.map(item => item.id === payload.new.id ? payload.new : item)
MapReplace(prev, new) ==
  [i \in 1..Len(prev) |-> IF prev[i].id = new.id THEN new ELSE prev[i]]

\* Mutant of RealTimeReduce: an INSERT puts the record at the end.
RealTimeReduceAtEnd(prev, eventType, new) ==
  IF eventType = "INSERT" THEN Append(prev, new)
  ELSE IF eventType = "UPDATE" THEN MapReplace(prev, new)
  ELSE IF eventType = "DELETE" THEN SelectSeq(prev, LAMBDA item : item.id # new.id)
  ELSE prev

\* The list handleRealTimeUpdate makes of prev for an event; new stands for
\* payload.new of an INSERT or UPDATE and for payload.old of a DELETE.
RealTimeReduce(prev, eventType, new) ==
  IF eventType = "INSERT" THEN <<new>> \o prev
  ELSE IF eventType = "UPDATE" THEN MapReplace(prev, new)
  ELSE IF eventType = "DELETE" THEN SelectSeq(prev, LAMBDA item : item.id # new.id)
  ELSE prev

\* A change the subscription reports: the table it is about (type), the
\* eventType and the record (payload.new, or payload.old of a DELETE, which
\* carries the id alone).
Payload(type, eventType, record) ==
  [type |-> type, eventType |-> eventType,
   record |-> IF eventType = "DELETE" THEN [id |-> record.id] ELSE record]

SamplePayloads ==
  {Payload("order", e, o) : e \in {"INSERT", "UPDATE", "DELETE"}, o \in SampleOrders}
    \cup
  {Payload("quote", e, q) : e \in {"INSERT", "UPDATE", "DELETE"}, q \in SampleQuotes}

\* The subscription of useRealTimeUpdates receives a change; it exists only
\* for a user with an id.  The channel carries one change at a time.
ChangeDetected(payload) ==
  /\ user.id # None
  /\ dashboard.channel = <<>>
  /\ dashboard' = [dashboard EXCEPT !.channel = <<payload>>]
  /\ lastCall' = "postgres_changes"
  /\ alerts' = <<>>
  /\ UNCHANGED <<user, dbCart, dbOrders, cartItems, isLoading, hasLoadedCart,
                 loadReq, orderDetails, isSubmitting, orderSuccess, clock,
                 attempt, pc, creates, clearReq, portal, edits, probe>>

\* handleRealTimeUpdate(payload, type) for the change the channel delivers.
HandleRealTimeUpdate ==
  /\ dashboard.channel # <<>>
  /\ LET payload == Head(dashboard.channel) IN
       dashboard' =
         IF payload.type = "order"
           THEN [dashboard EXCEPT
                   !.channel = Tail(@),
                   !.orders = RealTimeReduce(@, payload.eventType, payload.record)]
           ELSE [dashboard EXCEPT
                   !.channel = Tail(@),
                   !.quotes = RealTimeReduce(@, payload.eventType, payload.record)]
  /\ lastCall' = "handleRealTimeUpdate"
  /\ alerts' = <<>>
  /\ UNCHANGED <<user, dbCart, dbOrders, cartItems, isLoading, hasLoadedCart,
                 loadReq, orderDetails, isSubmitting, orderSuccess, clock,
                 attempt, pc, creates, clearReq, portal, edits, probe>>

\* The lists stay within the bounds: an INSERT is taken only below them.
WithinBounds(payload) ==
  payload.eventType = "INSERT" =>
    IF payload.type = "order" THEN Len(dashboard.orders) < MaxOrders
    ELSE Len(dashboard.quotes) < MaxQuotes

InitDashboard ==
  /\ PageInit
  /\ dbCart = <<OtherUserRow>>
  /\ portal = PortalIdle
  /\ edits = EditsIdle(user)
  /\ dashboard = DashboardIdle
  /\ probe = NoProbe

\* The dashboard under any changes the subscription may report.
NextDashboard ==
  \/ \E payload \in SamplePayloads : WithinBounds(payload) /\ ChangeDetected(payload)
  \/ HandleRealTimeUpdate

SpecDashboard == InitDashboard /\ [][NextDashboard]_vars

(***************************************************************************)
(* fetchOrders of the dashboard next to the real-time changes.  Here the   *)
(* changes are those of the Order rows of the buyer: each change of a row  *)
(* is reported once by the subscription.                                   *)
(***************************************************************************)
MaxFetches == 2       \* calls of fetchOrders, per behaviour
MaxStoreChanges == 2  \* changes of the stored orders, per behaviour

\* supplierName: order.supplierName || 'Supplier'
WithFallbackName(order) ==
  IF order.supplierName = None
    THEN [order EXCEPT !.supplierName = Some("Supplier")]
    ELSE order

\* (data || []).map(order => ({...order, supplierName: ...}))
ordersWithFallbackNames(data) == [i \in 1..Len(data) |-> WithFallbackName(data[i])]

\* The ids of a list of rows.
IdsOf(list) == {list[i].id : i \in 1..Len(list)}

\* A row of the buyer is inserted, updated or deleted in the store, by the
\* cart page or by a supplier, and the subscription is told.
StoreChange ==
  /\ user.id # None
  /\ dashboard.channel = <<>>
  /\ dashboard.started < MaxStoreChanges
  /\ \E o \in SampleOrders : \E eventType \in {"INSERT", "UPDATE", "DELETE"} :
       /\ IF eventType = "INSERT" THEN o.id \notin IdsOf(dashboard.stored)
                                  ELSE o.id \in IdsOf(dashboard.stored)
       /\ eventType = "UPDATE" => o \notin {dashboard.stored[i] : i \in 1..Len(dashboard.stored)}
       /\ dashboard' =
            [dashboard EXCEPT
               !.stored = RealTimeReduce(@, eventType, o),
               !.channel = <<Payload("order", eventType, o)>>,
               !.started = @ + 1]
  /\ lastCall' = "store"
  /\ alerts' = <<>>
  /\ UNCHANGED <<user, dbCart, dbOrders, cartItems, isLoading, hasLoadedCart,
                 loadReq, orderDetails, isSubmitting, orderSuccess, clock,
                 attempt, pc, creates, clearReq, portal, edits, probe>>

\* fetchOrders up to its await: called by the effect on mount and by the
\* refresh button.  Without a user id it returns at once.
FetchOrders ==
  /\ Cardinality(dashboard.fetches) < MaxFetches
  /\ dashboard' =
       IF user.id = None THEN dashboard
       ELSE [dashboard EXCEPT
               !.loadingOrders = TRUE,
               !.error = <<>>,
               !.fetches = @ \cup {[n |-> Cardinality(@) + 1, data |-> <<>>,
                                    served |-> FALSE]}]
  /\ lastCall' = "fetchOrders"
  /\ alerts' = <<>>
  /\ UNCHANGED <<user, dbCart, dbOrders, cartItems, isLoading, hasLoadedCart,
                 loadReq, orderDetails, isSubmitting, orderSuccess, clock,
                 attempt, pc, creates, clearReq, portal, edits, probe>>

\* The store answers the read of a fetch with the rows it holds then.
FetchServed ==
  \E f \in dashboard.fetches :
    /\ ~f.served
    /\ dashboard' =
         [dashboard EXCEPT
            !.fetches = (@ \ {f}) \cup
               {[f EXCEPT !.data = dashboard.stored, !.served = TRUE]}]
    /\ lastCall' = "store"
    /\ alerts' = <<>>
    /\ UNCHANGED <<user, dbCart, dbOrders, cartItems, isLoading, hasLoadedCart,
                   loadReq, orderDetails, isSubmitting, orderSuccess, clock,
                   attempt, pc, creates, clearReq, portal, edits, probe>>

\* fetchOrders after its await: the rows replace the list, or the read has
\* failed and the error is set; loading ends.
FetchOrdersSettles ==
  \E f \in dashboard.fetches :
    /\ \/ /\ f.served
          /\ dashboard' =
               [dashboard EXCEPT
                  !.orders = ordersWithFallbackNames(f.data),
                  !.loadingOrders = FALSE,
                  !.fetches = @ \ {f}]
       \/ dashboard' =
            [dashboard EXCEPT
               !.error = <<"Failed to load orders">>,
               !.loadingOrders = FALSE,
               !.fetches = @ \ {f}]
    /\ lastCall' = "fetchOrders"
    /\ alerts' = <<>>
    /\ UNCHANGED <<user, dbCart, dbOrders, cartItems, isLoading, hasLoadedCart,
                   loadReq, orderDetails, isSubmitting, orderSuccess, clock,
                   attempt, pc, creates, clearReq, portal, edits, probe>>

\* The rows the store may hold when the dashboard is opened.
StoredAtStart ==
  {NoStoredOrders,
   <<[id |-> "o1", status |-> "pending", totalAmount |-> Some(50000),
      supplierName |-> None]>>,
   <<[id |-> "o2", status |-> "DELIVERED", totalAmount |-> Some(75000),
      supplierName |-> Some("S2")],
     [id |-> "o1", status |-> "pending", totalAmount |-> Some(50000),
      supplierName |-> None]>>}

InitFetch ==
  /\ PageInit
  /\ dbCart = <<OtherUserRow>>
  /\ portal = PortalIdle
  /\ edits = EditsIdle(user)
  /\ \E rows \in StoredAtStart : dashboard = [DashboardIdle EXCEPT !.stored = rows]
  /\ probe = NoProbe

NextFetch ==
  \/ StoreChange
  \/ HandleRealTimeUpdate
  \/ FetchOrders
  \/ FetchServed
  \/ FetchOrdersSettles

SpecFetch == InitFetch /\ [][NextFetch]_vars

(***************************************************************************)
(* Deleting an order or a quote request from the dashboard.  The page      *)
(* renders the delete button of every row and hands the confirmation state *)
(* to ConfirmationModal: its confirm button calls handleConfirmDelete, its *)
(* cancel button closeConfirmation.  What the open modal blocks is not     *)
(* decided by the page, so the model blocks nothing: a row's button can be *)
(* clicked and the deletion confirmed whenever they are on screen.         *)
(***************************************************************************)
MaxDeletes == 1  \* confirmed deletions, per behaviour

\* list.filter(item => item.id !== id), mutated: nothing is filtered out.
FilterOutNothing(list, id) == list

\* list.filter(item => item.id !== id)
FilterOut(list, id) == SelectSeq(list, LAMBDA item : item.id # id)

\* The message of a failed delete request.
DeleteFailures == {"network error"}

\* showDeleteConfirmation(type, id, itemName), from the button of a row of
\* the orders or the quotes tab.
ShowDeleteConfirmation ==
  /\ \E type \in {"order", "quote"} :
       \E id \in IdsOf(IF type = "order" THEN dashboard.orders ELSE dashboard.quotes) :
         dashboard' =
           [dashboard EXCEPT
              !.confirmation =
                 [isOpen |-> TRUE, type |-> Some(type), id |-> Some(id),
                  isLoading |-> FALSE]]
  /\ lastCall' = "showDeleteConfirmation"
  /\ alerts' = <<>>
  /\ UNCHANGED <<user, dbCart, dbOrders, cartItems, isLoading, hasLoadedCart,
                 loadReq, orderDetails, isSubmitting, orderSuccess, clock,
                 attempt, pc, creates, clearReq, portal, edits, probe>>

\* closeConfirmation: the modal is hidden, what it was about is kept.
CloseConfirmation ==
  /\ dashboard.confirmation.isOpen
  /\ dashboard' = [dashboard EXCEPT !.confirmation.isOpen = FALSE]
  /\ lastCall' = "closeConfirmation"
  /\ alerts' = <<>>
  /\ UNCHANGED <<user, dbCart, dbOrders, cartItems, isLoading, hasLoadedCart,
                 loadReq, orderDetails, isSubmitting, orderSuccess, clock,
                 attempt, pc, creates, clearReq, portal, edits, probe>>

\* handleConfirmDelete up to its await, from the confirm button of the open
\* modal: the delete request of the row is sent with the id of the user;
\* the call keeps the lists of the render it was made from.
HandleConfirmDelete ==
  /\ dashboard.confirmation.isOpen
  /\ dashboard.confirmed < MaxDeletes
  /\ dashboard' =
       IF dashboard.confirmation.id = None \/ dashboard.confirmation.type = None
         THEN dashboard
         ELSE [dashboard EXCEPT
                 !.confirmation.isLoading = TRUE,
                 !.confirmed = @ + 1,
                 !.deletes = @ \cup
                    {[n |-> dashboard.confirmed + 1,
                      type |-> dashboard.confirmation.type[1],
                      id |-> dashboard.confirmation.id[1],
                      userId |-> user.id,
                      orders |-> dashboard.orders,
                      quotes |-> dashboard.quotes,
                      outcome |-> <<>>]}]
  /\ lastCall' = "handleConfirmDelete"
  /\ alerts' = <<>>
  /\ UNCHANGED <<user, dbCart, dbOrders, cartItems, isLoading, hasLoadedCart,
                 loadReq, orderDetails, isSubmitting, orderSuccess, clock,
                 attempt, pc, creates, clearReq, portal, edits, probe>>

\* The store answers a delete request: the row with the id and the userId
\* is deleted, if there is one, and the subscription is told; or the
\* request fails.  Quote requests are not among the rows modelled.
DeleteServed ==
  \E d \in dashboard.deletes :
    /\ d.outcome = None
    /\ \/ dashboard' =
            [dashboard EXCEPT
               !.deletes = (@ \ {d}) \cup {[d EXCEPT !.outcome = Some("ok")]},
               !.stored = IF d.type = "order" /\ d.userId # None
                            THEN FilterOut(@, d.id) ELSE @,
               !.channel = IF d.type = "order" /\ d.userId # None
                                /\ d.id \in IdsOf(dashboard.stored)
                             THEN Append(@, Payload("order", "DELETE", [id |-> d.id]))
                             ELSE @]
       \/ \E message \in DeleteFailures :
            dashboard' =
              [dashboard EXCEPT
                 !.deletes = (@ \ {d}) \cup {[d EXCEPT !.outcome = Some(message)]}]
    /\ lastCall' = "store"
    /\ alerts' = <<>>
    /\ UNCHANGED <<user, dbCart, dbOrders, cartItems, isLoading, hasLoadedCart,
                   loadReq, orderDetails, isSubmitting, orderSuccess, clock,
                   attempt, pc, creates, clearReq, portal, edits, probe>>

\* handleConfirmDelete after its await: the row is filtered out of the list
\* the call was made with, or the error is set; finally the confirmation
\* is reset.
DeleteSettles ==
  \E d \in dashboard.deletes :
    /\ d.outcome # None
    /\ dashboard' =
         IF d.outcome = Some("ok")
           THEN IF d.type = "order"
                  THEN [dashboard EXCEPT
                          !.orders = FilterOut(d.orders, d.id),
                          !.confirmation = ConfirmationClosed,
                          !.deletes = @ \ {d}]
                  ELSE [dashboard EXCEPT
                          !.quotes = FilterOut(d.quotes, d.id),
                          !.confirmation = ConfirmationClosed,
                          !.deletes = @ \ {d}]
           ELSE [dashboard EXCEPT
                   !.error = Some("Failed to delete " \o d.type \o ": " \o d.outcome[1]),
                   !.confirmation = ConfirmationClosed,
                   !.deletes = @ \ {d}]
    /\ lastCall' = IF d.outcome = Some("ok") THEN "handleConfirmDelete:deleted"
                                             ELSE "handleConfirmDelete:catch"
    /\ alerts' = <<>>
    /\ UNCHANGED <<user, dbCart, dbOrders, cartItems, isLoading, hasLoadedCart,
                   loadReq, orderDetails, isSubmitting, orderSuccess, clock,
                   attempt, pc, creates, clearReq, portal, edits, probe>>

\* A quote request of the buyer appears on the dashboard.
QuoteDetected ==
  \E q \in SampleQuotes :
    /\ q.status = "pending"
    /\ WithinBounds(Payload("quote", "INSERT", q))
    /\ ChangeDetected(Payload("quote", "INSERT", q))

\* The orders are fetched by the effect of the first render only.
NextDelete ==
  \/ (dashboard.loadingOrders /\ dashboard.fetches = {} /\ FetchOrders)
  \/ FetchServed
  \/ FetchOrdersSettles
  \/ QuoteDetected
  \/ HandleRealTimeUpdate
  \/ ShowDeleteConfirmation
  \/ CloseConfirmation
  \/ HandleConfirmDelete
  \/ DeleteServed
  \/ DeleteSettles

SpecDelete == InitFetch /\ [][NextDelete]_vars

(***************************************************************************)
(* Properties of handleSubmitOrder, checked under Spec.                    *)
(***************************************************************************)
\* The results of the submission being awaited.
CurrentCreates(reqs, n) == {q \in reqs : q.attempt = n}

\* The step that issues the cart delete.
ClearIssued == clearReq = "none" /\ clearReq' = "inflight"

\* C1: the cart delete is issued only by the handler that awaits its order
\* inserts, when every insert of that submission has settled without an error
\* (none in flight, none failed); the handler then waits for the delete and
\* ends, and a new wait for inserts belongs to a new submission, so that no
\* submission issues the delete twice.
C1_ClearOnlyAfterAllCreatesSucceeded ==
  [][/\ ClearIssued =>
          /\ pc = "awaitCreates" /\ pc' = "awaitClear" /\ attempt' = attempt
          /\ CurrentCreates(creates', attempt') # {}
          /\ \A q \in CurrentCreates(creates', attempt') : q.status = "ok"
     /\ clearReq' = "inflight" =>
          \A q \in CurrentCreates(creates', attempt') : q.status = "ok"
     /\ pc = "awaitClear" => pc' \in {"awaitClear", "idle"} /\ attempt' = attempt
     /\ (pc # "awaitCreates" /\ pc' = "awaitCreates") => attempt' = attempt + 1
    ]_vars

\* C1 witness: the delete is in flight after two inserts of the submission
\* succeeded.
C1_Witness ==
  /\ clearReq = "inflight"
  /\ Cardinality({q \in CurrentCreates(creates, attempt) : q.status = "ok"}) = 2

\* Some insert of the awaited submission has failed.
SomeCreateFailed ==
  \E q \in CurrentCreates(creates, attempt) : q.status \in {"error", "rejected"}

\* The handler ends while it awaits the inserts.
CreatesFailedStep == pc = "awaitCreates" /\ pc' = "idle"

\* C2: once an insert of the awaited submission has failed, the delete is
\* never issued and the handler can only end as failed; the failing end
\* surfaces one error, leaves orderSuccess false and the stored and local
\* cart as they were; and no step removes a stored order.
C2_PartialFailureKeepsCartAndOrders ==
  [][/\ (pc = "awaitCreates" /\ SomeCreateFailed) =>
          pc' \in {"awaitCreates", "idle"} /\ clearReq' = "none"
     /\ CreatesFailedStep =>
          /\ Len(alerts') = 1
          /\ ~orderSuccess /\ ~orderSuccess'
          /\ ~isSubmitting'
          /\ clearReq' = "none"
          /\ dbCart' = dbCart
          /\ cartItems' = cartItems
     /\ dbOrders \subseteq dbOrders'
    ]_vars

\* C2 witness: a submission has just failed although one of its orders is
\* stored; the cart is still there.
C2_Witness ==
  /\ pc = "idle" /\ attempt = 1 /\ creates = {}
  /\ alerts = <<<<"Failed to ", "submit order", ". Please try again.">>>>
  /\ Cardinality(dbOrders) = 1
  /\ Len(cartItems) = 2
  /\ ReadCart(dbCart, "u1") = cartItems
  /\ ~orderSuccess

\* The handler ends after the cart delete and the buyer's rows are still
\* stored: the delete failed.
ClearFailedStep ==
  /\ pc = "awaitClear" /\ pc' = "idle"
  /\ ReadCart(dbCart', "u1") # <<>>

\* C3: when the cart delete fails, one error is surfaced, orderSuccess stays
\* false, the local list keeps its items, which a read of the stored cart
\* still returns, and every order of the submission is stored.
C3_ClearFailureKeepsCartAndOrders ==
  [][ClearFailedStep =>
       /\ Len(alerts') = 1
       /\ ~orderSuccess /\ ~orderSuccess'
       /\ cartItems' = cartItems /\ cartItems' # <<>>
       /\ ReadCart(dbCart', "u1") = cartItems'
       /\ dbOrders' = dbOrders
       /\ \A q \in CurrentCreates(creates, attempt) : q.record \in dbOrders'
    ]_vars

\* C3 witness: the delete has just failed with a permission error; two orders
\* of the submission are stored and the cart is still there.
C3_Witness ==
  /\ pc = "idle" /\ attempt = 1
  /\ alerts = <<<<"You do not have permission to perform this action.">>>>
  /\ Cardinality(dbOrders) = 2
  /\ Len(cartItems) = 2
  /\ ReadCart(dbCart, "u1") = cartItems
  /\ ~orderSuccess /\ ~isSubmitting

\* The messages of an alert text, without the line breaks.
LinesOf(text) == SelectSeq(text, LAMBDA x : x # "\n")

SupplierOption(item) ==
  IF item.Product = <<>> THEN None ELSE item.Product[1].supplierId

\* The unit price of an item as the claims name it: 0 when the joined
\* product or its price is missing.
UnitPrice(item) ==
  IF item.Product # <<>> /\ item.Product[1].price # <<>>
    THEN item.Product[1].price[1]
    ELSE 0

RECURSIVE SumOfSnapshot(_)
SumOfSnapshot(entries) ==
  IF entries = <<>> THEN 0
  ELSE Head(entries).price * Head(entries).quantity + SumOfSnapshot(Tail(entries))

\* The order inserts a step sends.
NewCreates == {q \in creates' : q \notin creates /\ q.status = "inflight"}

\* The items of the cart that belong to the supplier of an order record.
BucketItemsOf(items, record) ==
  SelectSeq(items, LAMBDA it :
    IF SupplierOption(it) = None
      THEN record.supplierId = "unknown"
      ELSE record.supplierId = SupplierOption(it)[1])

\* C5: every order record sent for creation has totalAmount = sum of price x
\* quantity over its snapshot + shippingCost, and its snapshot has one entry
\* per cart item of the bucket, with that item's quantity and unit price.
C5_OrderTotalMatchesSnapshot ==
  [][\A q \in NewCreates :
       LET o == q.record
           bucketItems == BucketItemsOf(cartItems, o)
       IN /\ o.totalAmount = SumOfSnapshot(o.items) + o.shippingCost
          /\ Len(o.items) = Len(bucketItems)
          /\ \A i \in 1..Len(bucketItems) :
               /\ o.items[i].product_id = bucketItems[i].productId
               /\ o.items[i].quantity = bucketItems[i].quantity
               /\ o.items[i].price = UnitPrice(bucketItems[i])
    ]_vars

\* C5 witness: an insert in flight carries two snapshot entries of supplier
\* S1, 2 x 60000 and 1 x 20000, with total 140000 and no shipping cost.
C5_Witness ==
  \E q \in creates :
    /\ q.status = "inflight" /\ q.supplierId = "S1"
    /\ Len(q.record.items) = 2
    /\ q.record.totalAmount = 140000 /\ q.record.shippingCost = 0

\* The supplier groups of a cart: one per identifier, one for the items
\* without an identifier.
SupplierGroups(items) == {SupplierOption(items[i]) : i \in 1..Len(items)}

\* The stored orders of the submission made at a given time.
OrdersAt(now) == {o \in dbOrders : o.createdAt = now}

\* C6: a submission that passes validation sends one insert per supplier
\* group of the cart, and when all of them have succeeded as many orders of
\* the submission are stored as there are groups, with different supplierIds.
C6_OneOrderPerSupplierGroup ==
  [][/\ NewCreates # {} =>
          /\ Cardinality(NewCreates) = Cardinality(SupplierGroups(cartItems))
          /\ \A g \in SupplierGroups(cartItems) :
               Cardinality({q \in NewCreates :
                              q.supplierId = IF g = None THEN "unknown" ELSE g[1]}) = 1
     /\ (pc = "awaitCreates" /\ pc' = "awaitClear") =>
          /\ Cardinality(OrdersAt(clock)') = Cardinality(SupplierGroups(cartItems))
          /\ Cardinality({o.supplierId : o \in OrdersAt(clock)'}) =
               Cardinality(OrdersAt(clock)')
    ]_vars

\* C6 witness: both inserts of a cart with one item of S1 and one of S2 have
\* succeeded: two orders of the submission are stored.
C6_Witness ==
  /\ pc = "awaitClear"
  /\ Len(cartItems) = 2
  /\ Cardinality(SupplierGroups(cartItems)) = 2
  /\ Cardinality(OrdersAt(clock)) = 2

\* C12: every order record sent for creation carries, as totalAmount and
\* shippingCost, the total and the delivery fee that calculateOrderTotals
\* gives for the items of its own bucket.
C12_OrderTotalsPerBucket ==
  [][\A q \in NewCreates :
       LET totals == calculateOrderTotals(BucketItemsOf(cartItems, q.record))
       IN /\ q.record.totalAmount = totals.total
          /\ q.record.shippingCost = totals.deliveryFee
    ]_vars

\* C12 witness: the cart is worth 160000, above the threshold, and its two
\* inserts in flight each carry a fee: 65000 for S1 and 105000 for S2.
C12_Witness ==
  /\ calculateOrderTotals(cartItems).subtotal = 160000
  /\ calculateOrderTotals(cartItems).deliveryFee = 0
  /\ \E q1 \in creates : \E q2 \in creates :
       /\ q1.status = "inflight" /\ q2.status = "inflight"
       /\ q1.supplierId = "S1" /\ q1.record.totalAmount = 65000
       /\ q1.record.shippingCost = 5000
       /\ q2.supplierId = "S2" /\ q2.record.totalAmount = 105000
       /\ q2.record.shippingCost = 5000

\* The step ran handleSubmitOrder for a user without an id.
SubmitWithoutId == lastCall' = "handleSubmitOrder" /\ user.id = None

\* C13: a submission by a user without an id is refused with an error shown
\* to the user, and sends neither an order insert nor the cart delete.
C13_NoIdSubmissionShowsAuthError ==
  [][SubmitWithoutId =>
       /\ alerts' # <<>>
       /\ NewCreates = {}
       /\ clearReq' = clearReq
    ]_vars

\* The step ran handleSubmitOrder on a draft that does not validate.
ValidationFailedStep ==
  /\ lastCall' = "handleSubmitOrder"
  /\ user.id # None
  /\ validateOrderDetails(orderDetails) # <<>>

\* The text shown when an order insert failed.
CreateFailureText == handleSupabaseError(None, "submit order")

\* C14: a validation failure, a failed order insert and a failed cart delete
\* each end with a message shown to the user, and the message of a failed
\* cart delete is not the message of a failed order insert.
C14_FailureKindsHaveDistinctMessages ==
  [][/\ ValidationFailedStep => alerts' # <<>>
     /\ CreatesFailedStep => alerts' = <<CreateFailureText>>
     /\ ClearFailedStep => alerts' # <<>> /\ alerts' # <<CreateFailureText>>
    ]_vars

\* The step at which a submission passes validation and starts.
SubmissionStarts == attempt' = attempt + 1

\* The step at which the handler reports the outcome and its call ends.
OutcomeReported == pc # "idle" /\ pc' = "idle"

\* The supplier ids of the buckets of a list.
BucketIds(items) ==
  {itemsBySupplier(items)[i].supplierId : i \in 1..Len(itemsBySupplier(items))}

\* The requests of a set that have not settled.
Unsettled(reqs) == {q \in reqs : q.status = "inflight"}

\* C17: the step that starts a submission issues the insert of every bucket,
\* all in flight, before the handler waits for any; no insert of the
\* submission is issued at a later step; and when the handler reports the
\* outcome, no insert of the submission is still in flight, whether an insert
\* failed with an error value or by rejecting.
C17_OutcomeAfterAllCreatesSettled ==
  [][/\ SubmissionStarts =>
          /\ pc' = "awaitCreates"
          /\ {q.supplierId : q \in CurrentCreates(creates', attempt')} =
               BucketIds(cartItems)
          /\ CurrentCreates(creates', attempt') \subseteq Unsettled(creates')
     /\ ~SubmissionStarts =>
          {q.supplierId : q \in CurrentCreates(creates', attempt)} \subseteq
            {q.supplierId : q \in CurrentCreates(creates, attempt)}
     /\ OutcomeReported => Unsettled(CurrentCreates(creates', attempt)) = {}
    ]_vars

\* C18: the step that starts a submission sends one insert for every bucket
\* of the list; and an insert in flight stays in flight until it settles
\* itself: no step takes away an insert other than the one that settles at
\* that step, whatever the outcome of that one and of the submission.
C18_EveryBucketCreateIsSent ==
  [][/\ SubmissionStarts =>
          /\ Cardinality(CurrentCreates(creates', attempt')) =
               Len(itemsBySupplier(cartItems))
          /\ \A b \in BucketIds(cartItems) :
               \E q \in Unsettled(creates') :
                 q.attempt = attempt' /\ q.supplierId = b
     /\ Cardinality(Unsettled(creates) \ creates') <= 1
     /\ Unsettled(creates) \ creates' # {} => lastCall' = "insert"
    ]_vars

\* C18 witness: the handler waits for the inserts of a two-bucket submission;
\* one has failed and the insert of the other bucket is in flight.
C18_Witness ==
  /\ pc = "awaitCreates"
  /\ \E q \in CurrentCreates(creates, attempt) :
       \E r \in CurrentCreates(creates, attempt) :
         /\ q.status = "error" /\ r.status = "inflight"
         /\ q.supplierId # r.supplierId

\* The stored orders of a supplier.
OrdersOfSupplier(rows, supplierId) == {o \in rows : o.supplierId = supplierId}

\* C23: submissions are not deduplicated: a submission sends an insert for
\* every bucket whether or not an order of that supplier is stored already,
\* every insert that succeeds is stored, and no step removes a stored order.
C23_ResubmissionIsNotDeduplicated ==
  [][/\ dbOrders \subseteq dbOrders'
     /\ SubmissionStarts =>
          \A b \in BucketIds(cartItems) :
            \E q \in Unsettled(creates') :
              q.attempt = attempt' /\ q.supplierId = b
     /\ \A q \in creates' : q.status = "ok" => q.record \in dbOrders'
     /\ (~orderSuccess /\ orderSuccess') =>
          \A q \in CurrentCreates(creates, attempt) : q.record \in dbOrders'
    ]_vars

\* C23 witness: the first submission stored the order of S1 and failed on
\* S2; the second submission of the same cart has fully succeeded: two
\* orders of S1 with the same items are stored, and one of S2.
C23_Witness ==
  /\ orderSuccess /\ attempt = 2 /\ pc = "idle"
  /\ Cardinality(OrdersOfSupplier(dbOrders, "S1")) = 2
  /\ Cardinality(OrdersOfSupplier(dbOrders, "S2")) = 1
  /\ \A o1 \in OrdersOfSupplier(dbOrders, "S1") :
       \A o2 \in OrdersOfSupplier(dbOrders, "S1") :
         o1.items = o2.items /\ o1.totalAmount = o2.totalAmount

\* The sum of totalAmount over a set of order records.
RECURSIVE SumTotalAmount(_)
SumTotalAmount(records) ==
  IF records = {} THEN 0
  ELSE LET r == CHOOSE x \in records : TRUE
       IN r.totalAmount + SumTotalAmount(records \ {r})

\* The records of the inserts of the submission being made.
CreatedRecords == {q.record : q \in CurrentCreates(creates, attempt)}

\* C30: when a submission succeeds, the orders it has stored add up to at
\* least the total that calculateOrderTotals shows for the cart that was
\* submitted, and to exactly that total when the cart is one bucket.
C30_OrdersSumCoversShownTotal ==
  [][(~orderSuccess /\ orderSuccess') =>
       /\ CreatedRecords \subseteq dbOrders'
       /\ Cardinality(CreatedRecords) = Len(itemsBySupplier(cartItems))
       /\ SumTotalAmount(CreatedRecords) >= calculateOrderTotals(cartItems).total
       /\ Len(itemsBySupplier(cartItems)) = 1 =>
            SumTotalAmount(CreatedRecords) = calculateOrderTotals(cartItems).total
    ]_vars

\* C30 witness: the inserts of a cart of two buckets have succeeded and the
\* delete is awaited: the page shows 160000 (free delivery) and the two
\* orders, each with its own delivery fee, add up to 170000.
C30_Witness ==
  /\ pc = "awaitClear"
  /\ CreatedRecords \subseteq dbOrders
  /\ Len(itemsBySupplier(cartItems)) = 2
  /\ calculateOrderTotals(cartItems).total = 160000
  /\ SumTotalAmount(CreatedRecords) = 170000

(***************************************************************************)
(* Property of handleSubmitOrder, checked under SpecLive.                  *)
(***************************************************************************)
\* C24: isSubmitting is true exactly while a call of the handler waits for
\* its inserts or for its delete, and, the requests settling, every such
\* wait ends: the handler is idle again with isSubmitting false, after a
\* failed insert, a failed delete or the success.
C24_SubmittingEventuallyEnds ==
  /\ [](isSubmitting <=> pc \in {"awaitCreates", "awaitClear"})
  /\ isSubmitting ~>
       (~isSubmitting /\ pc = "idle" /\ (orderSuccess \/ alerts # <<>>))

\* C24 witness: the second submission has ended in a failed cart delete,
\* and isSubmitting is false again.
C24_Witness ==
  /\ attempt = 2 /\ pc = "idle" /\ ~isSubmitting /\ ~orderSuccess
  /\ lastCall = "delete" /\ alerts # <<>>

(***************************************************************************)
(* Property of the dashboard statistics, checked under SpecDashboard.      *)
(***************************************************************************)
\* The positions of a list that hold an order with one of the statuses.
PositionsWithStatus(list, statuses) ==
  {i \in 1..Len(list) : list[i].status \in statuses}

\* The amount of an order; an order that carries none counts as 0.
AmountOf(o) == IF o.totalAmount = None THEN 0 ELSE o.totalAmount[1]

\* The sum of the amounts of the orders at the given positions of a list.
RECURSIVE SumAt(_, _)
SumAt(list, positions) ==
  IF positions = {} THEN 0
  ELSE LET i == CHOOSE j \in positions : TRUE
       IN AmountOf(list[i]) + SumAt(list, positions \ {i})

\* The two spellings of the pending and of the delivered status.
PendingStatus == {"PENDING", "pending"}
DeliveredStatus == {"DELIVERED", "delivered"}

ClaimedList(list, eventType, record) ==
  CASE eventType = "INSERT" -> <<record>> \o list
    [] eventType = "UPDATE" ->
         [i \in 1..Len(list) |->
            IF list[i].id = record.id THEN record ELSE list[i]]
    [] eventType = "DELETE" ->
         SelectSeq(list, LAMBDA entry : entry.id # record.id)

\* C26: the step that handles a change makes the list of its type what the
\* change says and leaves the list of the other type alone; an UPDATE
\* whose id is in no entry leaves the list as it is.
C26_RealTimeReducer ==
  [][(dashboard.channel # <<>> /\ dashboard'.channel # dashboard.channel) =>
       LET payload == Head(dashboard.channel)
           ids == {dashboard.orders[i].id : i \in 1..Len(dashboard.orders)}
       IN IF payload.type = "order"
            THEN /\ dashboard'.orders =
                      ClaimedList(dashboard.orders, payload.eventType, payload.record)
                 /\ dashboard'.quotes = dashboard.quotes
                 /\ (payload.eventType = "UPDATE" /\ payload.record.id \notin ids)
                      => dashboard'.orders = dashboard.orders
            ELSE /\ dashboard'.quotes =
                      ClaimedList(dashboard.quotes, payload.eventType, payload.record)
                 /\ dashboard'.orders = dashboard.orders
    ]_vars

\* C26 witness: changes of both types have been handled; the dashboard
\* holds two orders, the one of o2 in front of the one of o1, and a quote.
C26_Witness ==
  /\ lastCall = "handleRealTimeUpdate"
  /\ dashboard.channel = <<>>
  /\ Len(dashboard.orders) = 2
  /\ dashboard.orders[1].id = "o2" /\ dashboard.orders[2].id = "o1"
  /\ Len(dashboard.quotes) = 1

(***************************************************************************)
(* Property of the deletion of an order, checked under SpecDelete.         *)
(***************************************************************************)
\* The steps of the delete flow of the dashboard.
DeleteFlowCalls ==
  {"showDeleteConfirmation", "closeConfirmation", "handleConfirmDelete",
   "handleConfirmDelete:deleted", "handleConfirmDelete:catch"}

\* The delete requests the step sends.
DeletesSent == {d \in dashboard'.deletes \ dashboard.deletes : d.outcome = None}

\* The delete requests whose answer the step handles.
DeletesSettled == dashboard.deletes \ dashboard'.deletes

\* C21: requesting the deletion of an order only opens the confirmation
\* dialog, changing neither the stored orders nor the list; a delete request
\* is sent only by confirming in the open dialog, for the row the dialog is
\* about; the delete flow changes the list only when the request has
\* succeeded, and then the order is no longer in the list; a failed request
\* leaves the list unchanged and sets an error; after either outcome the
\* dialog is closed and reset.
C21_DeleteOnlyAfterConfirmation ==
  [][/\ lastCall' = "showDeleteConfirmation" =>
          /\ dashboard'.confirmation.isOpen
          /\ dashboard'.orders = dashboard.orders
          /\ dashboard'.stored = dashboard.stored
          /\ DeletesSent = {}
     /\ \A d \in DeletesSent :
          /\ lastCall' = "handleConfirmDelete"
          /\ dashboard.confirmation.isOpen
          /\ dashboard.confirmation.id = Some(d.id)
          /\ dashboard.confirmation.type = Some(d.type)
          /\ dashboard'.stored = dashboard.stored
     /\ (lastCall' \in DeleteFlowCalls /\ dashboard'.orders # dashboard.orders) =>
          lastCall' = "handleConfirmDelete:deleted"
     /\ lastCall' = "handleConfirmDelete:deleted" =>
          /\ \E d \in DeletesSettled :
               /\ d.outcome = Some("ok")
               /\ d.type = "order" => d.id \notin IdsOf(dashboard'.orders)
          /\ dashboard'.confirmation = ConfirmationClosed
     /\ lastCall' = "handleConfirmDelete:catch" =>
          /\ \E d \in DeletesSettled : d.outcome \notin {None, Some("ok")}
          /\ dashboard'.orders = dashboard.orders
          /\ dashboard'.error # None
          /\ dashboard'.confirmation = ConfirmationClosed
    ]_vars

\* The deletion of order o1 out of two has been confirmed and has succeeded:
\* the list and the store hold o2 alone and the dialog is closed.
C21_Witness ==
  /\ lastCall = "handleConfirmDelete:deleted"
  /\ IdsOf(dashboard.orders) = {"o2"}
  /\ IdsOf(dashboard.stored) = {"o2"}
  /\ dashboard.confirmed = 1
  /\ dashboard.confirmation = ConfirmationClosed

StoredQuantityIs(rows, id, q) ==
  \E k \in 1..Len(rows) : rows[k].id = id /\ rows[k].quantity = q

\* No debounce timer is set and no store update is in flight.
UpdatesAtRest == edits.timer = None /\ edits.updates = {}

\* C28: when every debounce timer has fired and every store update has
\* succeeded, each item of the local list has the quantity that is stored
\* for it.
C28_NoQuantityChangeLeftUnsent ==
  UpdatesAtRest =>
    \A i \in 1..Len(cartItems) :
      StoredQuantityIs(dbCart, cartItems[i].id, cartItems[i].quantity)

(***************************************************************************)
(* Property of a failed quantity update, checked under SpecQuantity.       *)
(***************************************************************************)
\* The step of updateQuantity that accepts a new quantity.
QuantityChanged == edits'.timer # None /\ edits'.started = edits.started + 1

\* The step at which the store update of a quantity change fails.
UpdateFailedStep == lastCall' = "debouncedUpdateQuantity:catch"

\* The step at which the read started by a failed update delivers its rows.
RevertDone ==
  /\ lastCall' = "loadCart" /\ alerts' = <<>>
  /\ edits'.reloads # edits.reloads

\* C25: a quantity change shows in the local list at once and leaves the
\* store as it is; a failed store update starts a read of the stored cart;
\* and when that read has replaced the local list, every item of the list
\* has its stored quantity.
C25_FailedUpdateRevertsToStore ==
  [][/\ QuantityChanged =>
          /\ dbCart' = dbCart
          /\ \E i \in 1..Len(cartItems') :
               /\ cartItems'[i].id = edits'.timer[1].itemId
               /\ cartItems'[i].quantity = edits'.timer[1].quantity
     /\ UpdateFailedStep =>
          \E r \in edits'.reloads : r \notin edits.reloads
     /\ RevertDone =>
          \A i \in 1..Len(cartItems') :
            StoredQuantityIs(dbCart', cartItems'[i].id, cartItems'[i].quantity)
    ]_vars

(***************************************************************************)
(* Property of the stored and shown quantities, checked under              *)
(* SpecQuantities.                                                         *)
(***************************************************************************)
\* Every quantity of a list of rows or items is at least 1.
AllAtLeastOne(rows) == \A k \in 1..Len(rows) : rows[k].quantity >= 1

\* C27: every stored row and every item of the local list has a quantity of
\* at least 1, and so has every quantity on its way to the store; a call of
\* updateQuantity changes the store in no case, and changes the local list
\* only by setting one item to a quantity of at least 1: a call with a
\* quantity below 1 sets no timer and changes neither.
C27_QuantitiesStayPositive ==
  /\ [](/\ AllAtLeastOne(dbCart)
        /\ AllAtLeastOne(cartItems)
        /\ \A u \in edits.updates : u.quantity >= 1
        /\ edits.timer # None => edits.timer[1].quantity >= 1)
  /\ [][lastCall' = "updateQuantity" =>
         /\ dbCart' = dbCart
         /\ IF edits' = edits
              THEN cartItems' = cartItems
              ELSE /\ edits'.timer # None
                   /\ edits'.timer[1].quantity >= 1
                   /\ cartItems' = MapQuantity(cartItems, edits'.timer[1].itemId,
                                               edits'.timer[1].quantity)
       ]_vars

\* C27 witness: addToCart has raised the stored quantity of P1 from 1 to 2
\* while the cart page, loaded before, shows it at 1; updateQuantity has
\* just been called for that item with a quantity below 1 and has set no
\* timer.
C27_Witness ==
  /\ lastCall = "updateQuantity"
  /\ edits.timer = None /\ edits.started = 0
  /\ portal.started = 1 /\ portal.adds = {}
  /\ \E i \in 1..Len(cartItems) :
       cartItems[i].productId = "P1" /\ cartItems[i].quantity = 1
  /\ \E k \in 1..Len(dbCart) :
       /\ dbCart[k].userId = "u1" /\ dbCart[k].productId = "P1"
       /\ dbCart[k].quantity = 2

(***************************************************************************)
(* Property of the success view, checked under SpecCart.                   *)
(***************************************************************************)
\* C19: orderSuccess becomes true, and the local list is cleared by the
\* handler, exactly when every insert and the cart delete of the submission
\* have succeeded; and whenever orderSuccess is true the local list is empty.
C19_SuccessMeansCartCleared ==
  [][/\ (~orderSuccess /\ orderSuccess') =>
          /\ pc = "awaitClear" /\ pc' = "idle"
          /\ \A q \in CurrentCreates(creates, attempt) : q.status = "ok"
          /\ ReadCart(dbCart', SubmittedBy(creates, attempt)) = <<>>
          /\ cartItems' = <<>>
     /\ (pc = "awaitClear" /\ pc' = "idle" /\ alerts' = <<>>) =>
          orderSuccess' /\ cartItems' = <<>>
     /\ orderSuccess' => cartItems' = <<>>
    ]_vars

(***************************************************************************)
(* Property of the order records, checked under SpecOrders.                *)
(***************************************************************************)
\* s is t without its leading and trailing whitespace.
IsTrimmed(s, t) ==
  \E a \in 1..(Len(t) + 1) : \E b \in 0..Len(t) :
    /\ s = SubSeq(t, a, b)
    /\ \A i \in 1..Len(t) : (i < a \/ i > b) => t[i] \in WhiteSpace
    /\ s # <<>> => s[1] \notin WhiteSpace /\ s[Len(s)] \notin WhiteSpace

\* expectedDelivery and the draft fields other than the notes, as claimed.
RecordFollowsDraft(r, d, now) ==
  /\ d.urgency = "emergency" => r.expectedDelivery = now + 24 * 3600000
  /\ d.urgency = "urgent" => r.expectedDelivery = now + 3 * 24 * 3600000
  /\ d.urgency \notin {"emergency", "urgent"} =>
       r.expectedDelivery = now + 7 * 24 * 3600000
  /\ r.urgency = d.urgency
  /\ IsTrimmed(r.shippingAddress, d.deliveryAddress)
  /\ IsTrimmed(r.contactPerson, d.contactPerson)
  /\ IsTrimmed(r.phone, d.phone)
  /\ r.paymentTerms = d.paymentTerms

\* C16 as stated: every order of a submission carries the expected delivery
\* of its urgency and the draft's urgency, trimmed address, trimmed contact
\* person, trimmed phone, notes and payment terms.
C16_OrdersCarryDraftAsStated ==
  "orders" \in probe.done =>
    \A i \in 1..Len(probe.records) :
      /\ RecordFollowsDraft(probe.records[i], probe.details, probe.now)
      /\ probe.records[i].notes = probe.details.notes

\* C16, amended: as stated, with the notes trimmed like the other texts.
C16_OrdersCarryDraftTrimmedNotes ==
  "orders" \in probe.done =>
    \A i \in 1..Len(probe.records) :
      /\ RecordFollowsDraft(probe.records[i], probe.details, probe.now)
      /\ IsTrimmed(probe.records[i].notes, probe.details.notes)

\* C16 witness: two records of an urgent submission with padded notes, both
\* due three days after the submission and both with the notes "hi".
C16_Witness ==
  /\ "orders" \in probe.done
  /\ probe.details.urgency = "urgent"
  /\ probe.details.notes = <<" ", "h", "i", " ">>
  /\ Len(probe.records) = 2
  /\ \A i \in 1..2 :
       /\ probe.records[i].expectedDelivery = probe.now + 259200000
       /\ probe.records[i].notes = <<"h", "i">>
       /\ probe.records[i].paymentTerms = probe.details.paymentTerms

(***************************************************************************)
(* Property of addToCart, checked under SpecPortal.                        *)
(***************************************************************************)
\* The step in which the write of a call succeeded.
WriteDone(a) ==
  /\ a \in portal.adds
  /\ a.pc \in {"update", "insert"}
  /\ [a EXCEPT !.pc = "count"] \in portal'.adds

\* C15: the store never holds two rows of one user and one product, and the
\* write of an add for a product that is in the cart adds the amount to that
\* row's quantity and adds no row.
C15_OneRowPerUserAndProduct ==
  [][/\ \A pid \in PortalProducts : Len(RowsOf(dbCart', "u1", pid)) <= 1
     /\ \A a \in portal.adds :
          (WriteDone(a) /\ Len(RowsOf(dbCart, a.userId, a.productId)) = 1) =>
            /\ Len(dbCart') = Len(dbCart)
            /\ RowsOf(dbCart', a.userId, a.productId)[1].quantity =
                 RowsOf(dbCart, a.userId, a.productId)[1].quantity + a.quantity
    ]_vars

(***************************************************************************)
(* Properties of the grouping and of calculateOrderTotals, checked under   *)
(* SpecItems.                                                              *)
(***************************************************************************)
\* The key the claim gives an item: its supplier identifier, or "unknown".
ClaimedKey(item) ==
  IF SupplierOption(item) = None THEN "unknown" ELSE SupplierOption(item)[1]

\* How often an item occurs in the buckets.
Occurrences(buckets, item) ==
  Cardinality({<<b, j>> \in (1..Len(buckets)) \X (1..Len(probe.items)) :
                 j <= Len(buckets[b].items) /\ buckets[b].items[j] = item})

\* C7: the grouping is a partition of the list: every item is in exactly one
\* bucket, the one keyed by its supplier identifier or by "unknown"; bucket
\* keys are distinct; and each bucket holds its items in their list order.
C7_GroupingIsPartition ==
  "grouped" \in probe.done =>
    LET buckets == probe.buckets
        items == probe.items
    IN /\ \A i \in 1..Len(items) :
            /\ Occurrences(buckets, items[i]) = 1
            /\ \E b \in 1..Len(buckets) :
                 /\ buckets[b].supplierId = ClaimedKey(items[i])
                 /\ \E j \in 1..Len(buckets[b].items) : buckets[b].items[j] = items[i]
       /\ \A b \in 1..Len(buckets) :
            /\ buckets[b].items # <<>>
            /\ buckets[b].items =
                 SelectSeq(items, LAMBDA it : ClaimedKey(it) = buckets[b].supplierId)
       /\ \A b1 \in 1..Len(buckets) : \A b2 \in 1..Len(buckets) :
            buckets[b1].supplierId = buckets[b2].supplierId => b1 = b2

\* C7 witness: two items, the first without a supplier and the second of S1,
\* grouped into the buckets "unknown" and S1.
C7_Witness ==
  /\ "grouped" \in probe.done
  /\ Len(probe.items) = 2
  /\ Len(probe.buckets) = 2
  /\ probe.buckets[1].supplierId = "unknown"
  /\ probe.buckets[2].supplierId = "S1"

\* The supplier display name an item carries, on itself or on its joined
\* product: the CartItem rows and the Product join hold no such field.
SupplierDisplayName(item) ==
  IF "supplierName" \in DOMAIN item THEN Some(item.supplierName)
  ELSE IF item.Product # None /\ "supplierName" \in DOMAIN item.Product[1]
    THEN Some(item.Product[1].supplierName)
  ELSE None

RECURSIVE SumOfItems(_)
SumOfItems(items) ==
  IF items = <<>> THEN 0
  ELSE UnitPrice(Head(items)) * Head(items).quantity + SumOfItems(Tail(items))

\* C8: the delivery fee is 0 exactly when the subtotal is above 100000 and
\* 5000 otherwise; a subtotal of exactly 100000 pays 5000, and so does the
\* empty list, whose subtotal is 0.
C8_DeliveryFeeThreshold ==
  "totals" \in probe.done =>
    /\ probe.totals.deliveryFee = 0 <=> probe.totals.subtotal > 100000
    /\ probe.totals.subtotal <= 100000 => probe.totals.deliveryFee = 5000
    /\ probe.totals.subtotal = SumOfItems(probe.items)
    /\ probe.items = <<>> => probe.totals.subtotal = 0 /\ probe.totals.deliveryFee = 5000

\* C8 witness: totals of a list whose subtotal is exactly 100000.
C8_Witness ==
  /\ "totals" \in probe.done
  /\ probe.totals.subtotal = 100000
  /\ probe.totals.deliveryFee = 5000

\* C9: total = subtotal + deliveryFee, and subtotal is the sum of unit price
\* x quantity, an item without product or price adding 0.
C9_TotalIsSubtotalPlusFee ==
  "totals" \in probe.done =>
    /\ probe.totals.total = probe.totals.subtotal + probe.totals.deliveryFee
    /\ probe.totals.subtotal = SumOfItems(probe.items)

\* C9 witness: totals of a list with an item without a product and an item
\* of 60000 taken twice: subtotal 120000, total 120000.
C9_Witness ==
  /\ "totals" \in probe.done
  /\ Len(probe.items) = 2
  /\ probe.items[1].Product = None
  /\ probe.totals.subtotal = 120000
  /\ probe.totals.total = 120000

(***************************************************************************)
(* Property of validateOrderDetails, checked under SpecValidate.           *)
(***************************************************************************)
\* An optional leading "+", then at least 10 characters, each a digit, white
\* space, a hyphen or a parenthesis.
ClaimedPhoneShape(t) ==
  LET rest == IF t # <<>> /\ Head(t) = "+" THEN Tail(t) ELSE t
  IN /\ Len(rest) >= 10
     /\ \A i \in 1..Len(rest) :
          rest[i] \in Digits \cup WhiteSpace \cup {"-", "(", ")"}

\* C10: no message is returned exactly when the trimmed contact person has
\* at least 2 characters, the trimmed phone has the claimed shape and the
\* trimmed address has at least 10 characters.
C10_ValidExactlyWhenAllThreeRulesHold ==
  "validated" \in probe.done =>
    (probe.errors = <<>> <=>
       /\ Len(trim(probe.details.contactPerson)) >= 2
       /\ ClaimedPhoneShape(trim(probe.details.phone))
       /\ Len(trim(probe.details.deliveryAddress)) >= 10)

\* C10 witness: a draft with a padded phone of "+" and 10 digits validates.
C10_Witness ==
  /\ "validated" \in probe.done
  /\ probe.errors = <<>>
  /\ probe.details.phone = <<" ", "+">> \o Rep("7", 10) \o <<" ">>

\* The messages a field may contribute.
ContactMessages ==
  {"Contact person is required", "Contact person must be at least 2 characters"}
PhoneMessages == {"Phone number is required", "Please enter a valid phone number"}
AddressMessages ==
  {"Delivery address is required", "Please provide a complete delivery address"}

\* The zero or one message of a field: none exactly when its rule holds.
FieldPart(holds, messages) ==
  IF holds THEN {<<>>} ELSE {<<m>> : m \in messages}

\* C11: the returned list is the contact person's zero or one message, then
\* the phone's, then the address's, a field contributing a message exactly
\* when its rule is violated; a draft violating all three rules gets exactly
\* three messages, one per field, in that order.
C11_MessagesInFieldOrder ==
  "validated" \in probe.done =>
    LET d == probe.details
        contactOk == Len(trim(d.contactPerson)) >= 2
        phoneOk == ClaimedPhoneShape(trim(d.phone))
        addressOk == Len(trim(d.deliveryAddress)) >= 10
    IN /\ \E c \in FieldPart(contactOk, ContactMessages) :
          \E ph \in FieldPart(phoneOk, PhoneMessages) :
          \E a \in FieldPart(addressOk, AddressMessages) :
            probe.errors = c \o ph \o a
       /\ (~contactOk /\ ~phoneOk /\ ~addressOk) =>
            /\ Len(probe.errors) = 3
            /\ probe.errors[1] \in ContactMessages
            /\ probe.errors[2] \in PhoneMessages
            /\ probe.errors[3] \in AddressMessages

\* C11 witness: contact person "", phone "123" and address "short" give the
\* three messages in the order contact person, phone, address.
C11_Witness ==
  /\ "validated" \in probe.done
  /\ probe.details.contactPerson = <<>>
  /\ probe.details.phone = <<"1", "2", "3">>
  /\ probe.details.deliveryAddress = <<"s", "h", "o", "r", "t">>
  /\ probe.errors = <<"Contact person is required",
                      "Please enter a valid phone number",
                      "Please provide a complete delivery address">>

====
